---------------------------- MODULE Spec2Model ----------------------------
(***************************************************************************)
(* Weather analytics: the background job registry (src/src/jobs), the DWD  *)
(* importer (src/src/importers/dwd), the geo selector and the report       *)
(* generator (src/src/reports), as state machines.                         *)
(*                                                                         *)
(* Four specifications share the module.  JobSpec: one job of the          *)
(* registry, its worker thread running an import, and polling readers.     *)
(* ImportSpec: the daily-archive import against the daily_kl table.        *)
(* GeoSpec: the radius search.  ReportSpec: generate_report.               *)
(***************************************************************************)
EXTENDS Integers, Sequences, FiniteSets, TLC

\* ------------------------------------------------------------------ bounds
\* readers polling the job status concurrently
NumReaders == 2
\* archives a directory listing holds at most
MaxArchives == 2
\* csv rows read over all archives of one import run
MaxRows == 2
\* rows of StationTable the station import can store
NumStations == 5
\* rows of DayTable a report can find stored
NumDays == 3
\* CHUNK_SIZE of constants.py is 500; the model flushes its buffer at
\* this many keys so that full and partial chunks both occur
CHUNK_SIZE == 2
\* csv rows read over all archives of one run where the buffer is followed
\* past its first flush
MaxChunkRows == 3
\* SQLITE_LOCK_RETRIES of constants.py
SQLITE_LOCK_RETRIES == 5

VARIABLES
    \* ---- job registry (jobs/manager.py)
    jobs,       \* _jobs: job id -> JobState fields
    wpc,        \* position of the worker thread in _run_job
    ipc,        \* position of the work function (the import) the worker runs
    imp,        \* the import's locals the progress events are computed from
    snap,       \* reader -> its last status snapshot, <<>> before the first
    \* ---- daily import (importers/dwd/daily.py) and the daily_kl table
    source,     \* the publisher's archives in file-name order: kind and rows
    run,        \* 0 before the first import run, 1 in it, 2 in a later one
    pc,         \* position of the import run
    idx,        \* index of the archive the loop is at
    pos,        \* next row of the archive's data file
    batch,      \* _parse_and_store_daily's buffer, in insertion order
    attempts,   \* _executemany_with_retry's attempts
    daily_kl,   \* the rows of table daily_kl
    stats,      \* DailyImportStats of the run
    file_stats, \* DailyImportStats of the archive under way
    hist,       \* what the properties compare against (not program state)
    \* ---- table stations, the radius search and the report generator
    stations,   \* the rows of table stations
    geo,        \* the last radius search: its arguments, the table it read
                \* and what it returned; None before the first and when
                \* the tables have changed since
    rep,        \* the last generate_report call, likewise
    \* ---- one JobState at the grain of its lock (jobs/manager.py)
    job,        \* the fields of the JobState
    upd,        \* the worker thread: where _run_job is, and inside update
                \* the attributes still to set
    rd,         \* reader -> its to_dict call: the fields copied so far
    versions,   \* the values of job at the moments nobody held the lock
                \* (not program state)
    \* ---- one call of _executemany_with_retry (importers/dwd/core.py)
    retry,      \* where the loop is, attempts, params_list, and what the
                \* call has met so far: the errors and the sleeps
    \* ---- one run of run_full_refresh or run_station_refresh
    refresh,    \* where the run is and what it has done so far
    \* ---- the batch writers (importers/dwd/daily.py, stations.py)
    call,       \* the last call of a batch writer: its batch, the keys
                \* stored before it, and what it returned
    conns       \* worker -> its connection and its _persist_daily_batch
                \* call: the batch, the open transaction, the attempts

jobVars == <<jobs, wpc, ipc, imp, snap>>
impVars == <<source, run, pc, idx, pos, batch, attempts, daily_kl, stats,
             file_stats, hist>>
\* the importer's variables but the table
impLocals == <<source, run, pc, idx, pos, batch, attempts, stats, file_stats,
               hist>>
qryVars == <<stations, geo, rep>>
lockVars == <<job, upd, rd, versions>>
runVars == <<retry, refresh>>
wrVars == <<call, conns>>
vars == <<jobVars, impVars, qryVars, lockVars, runVars, wrVars>>

(***************************************************************************)
(*                         Background job registry                         *)
(***************************************************************************)
JobId == 1
Readers == 1..NumReaders
JobKinds == {"stations", "weather"}

\* JobState.__init__
NewJobState(job_type) ==
    [job_type |-> job_type, status |-> "pending", progress |-> 0,
     message |-> "Pending", stage |-> "", detail |-> [stage |-> ""],
     result |-> "None", error |-> "None", finished_at |-> FALSE]

\* JobState.update: setattr for every key of changes, under the job's lock
JobStateUpdate(j, changes) ==
    [k \in DOMAIN j |-> IF k \in DOMAIN changes THEN changes[k] ELSE j[k]]

\* JobState.to_dict: a copy of the fields, under the job's lock
ToDict(j) == j

\* progress is kept in hundredths of a percent (100.0 is 10000)
Pct(p) == p * 100

Max(a, b) == IF a >= b THEN a ELSE b
Min(a, b) == IF a <= b THEN a ELSE b

\* _update_progress: safe_percent = max(0.0, min(100.0, float(percent)))
SafePercent(percent) == Max(0, Min(Pct(100), percent))

\* progress_handler of _run_job, reached through _update_progress
ProgressChanges(j, percent, message, detail) ==
    [progress |-> SafePercent(percent), message |-> message,
     stage |-> IF "stage" \in DOMAIN detail THEN detail.stage ELSE j.stage,
     detail |-> detail]

\* a worker that forgets to mark the job running
RunningChangesNoStatus ==
    [message |-> "Startet", progress |-> 0,
     stage |-> "prepare", detail |-> [stage |-> ""]]

\* _run_job, first statement
RunningChanges ==
    [status |-> "running", message |-> "Startet", progress |-> 0,
     stage |-> "prepare", detail |-> [stage |-> ""]]

\* a completion that leaves the progress where the work function left it
CompletedChangesKeepProgress(j, res) ==
    [status |-> "completed",
     message |-> IF j.message \notin {"Pending", "Starting"}
                 THEN j.message ELSE "Abgeschlossen",
     result |-> res, finished_at |-> TRUE]

\* _run_job, after target() returned: final_message, final_progress
CompletedChanges(j, res) ==
    [status |-> "completed",
     progress |-> IF j.progress >= Pct(99) THEN j.progress ELSE Pct(100),
     message |-> IF j.message \notin {"Pending", "Starting"}
                 THEN j.message ELSE "Abgeschlossen",
     result |-> res, finished_at |-> TRUE]

\* an exception handler that records the error but leaves the status alone
FailedChangesNoStatus(exc) ==
    [error |-> exc, message |-> "Fehlgeschlagen", finished_at |-> TRUE]

\* an exception handler that drops the exception's message
FailedChangesNoError(exc) ==
    [status |-> "failed", message |-> "Fehlgeschlagen", finished_at |-> TRUE]

\* _run_job, except Exception as exc
FailedChanges(exc) ==
    [status |-> "failed", error |-> exc, message |-> "Fehlgeschlagen",
     finished_at |-> TRUE]

\* the percentage _import_daily_archives reports after an archive:
\* processed_total / total_archives * 100.0
ArchivePercent(processed_total, total_archives) ==
    IF total_archives > 0 THEN (processed_total * Pct(100)) \div total_archives
    ELSE Pct(100)

\* the progress events of run_full_refresh and run_station_refresh, in the
\* order the code emits them: <<percent, message, detail>>
PrepareEvent(job_type) ==
    <<Pct(0),
      IF job_type = "stations" THEN "Stationsimport wird vorbereitet"
      ELSE "Import wird vorbereitet",
      [stage |-> "prepare"]>>
StationsEvent == <<Pct(100), "Stationsdaten importiert", [stage |-> "stations"]>>
DailyStartEvent(total) ==
    <<Pct(0), "Dateien werden vorbereitet",
      [stage |-> "daily", archives_total |-> total,
       archives_processed |-> 0, archives_failed |-> 0]>>
DailyArchiveEvent(total, processed, failed) ==
    <<ArchivePercent(processed + failed, total), "Verarbeite Datei",
      [stage |-> "daily", archives_total |-> total,
       archives_processed |-> processed, archives_failed |-> failed]>>
CompleteEvent(job_type, processed, failed) ==
    IF job_type = "stations"
    THEN <<Pct(100), "Stationsimport abgeschlossen", [stage |-> "complete"]>>
    ELSE <<Pct(100), "Import der Tageswerte abgeschlossen",
           [stage |-> "complete", archives_processed |-> processed,
            archives_failed |-> failed]>>

\* _update_progress with the job's progress_handler bound
Emit(ev) ==
    jobs' = [jobs EXCEPT ![JobId] =
                JobStateUpdate(@, ProgressChanges(@, ev[1], ev[2], ev[3]))]

JobInit ==
    /\ jobs = <<>>
    /\ wpc = "none"
    /\ ipc = "none"
    /\ imp = [total |-> 0, processed |-> 0, failed |-> 0]
    /\ snap = [r \in Readers |-> <<>>]

\* launch_background_import -> start_job: the job is stored, the thread started
StartJob(kind) ==
    /\ JobId \notin DOMAIN jobs
    /\ jobs' = (JobId :> NewJobState(kind))
    /\ wpc' = "start"
    /\ UNCHANGED <<ipc, imp, snap>>
    /\ UNCHANGED <<impVars, qryVars, lockVars, runVars, wrVars>>

\* _run_job: job.update(status='running', ...), then target is entered
RunJobBegin ==
    /\ wpc = "start"
    /\ jobs' = [jobs EXCEPT ![JobId] = JobStateUpdate(@, RunningChanges)]
    /\ wpc' = "target"
    /\ ipc' = "prepare"
    /\ UNCHANGED <<imp, snap>>
    /\ UNCHANGED <<impVars, qryVars, lockVars, runVars, wrVars>>

\* run_full_refresh / run_station_refresh: _ensure_schema, the prepare event
ImportPrepare ==
    /\ wpc = "target" /\ ipc = "prepare"
    /\ Emit(PrepareEvent(jobs[JobId].job_type))
    /\ ipc' = "stations"
    /\ UNCHANGED <<wpc, imp, snap>>
    /\ UNCHANGED <<impVars, qryVars, lockVars, runVars, wrVars>>

\* _import_stations raises (listing, missing description file, download)
ImportStationsRaise ==
    /\ wpc = "target" /\ ipc = "stations"
    /\ ipc' = "raised"
    /\ UNCHANGED <<jobs, wpc, imp, snap>>
    /\ UNCHANGED <<impVars, qryVars, lockVars, runVars, wrVars>>

\* _import_stations returns; the event that follows it
ImportStationsOk ==
    /\ wpc = "target" /\ ipc = "stations"
    /\ IF jobs[JobId].job_type = "stations"
       THEN Emit(CompleteEvent("stations", 0, 0)) /\ ipc' = "returned"
       ELSE Emit(StationsEvent) /\ ipc' = "listing"
    /\ UNCHANGED <<wpc, imp, snap>>
    /\ UNCHANGED <<impVars, qryVars, lockVars, runVars, wrVars>>

\* _import_daily_archives up to the loop: the listing holds n archives
ImportListing(n) ==
    /\ wpc = "target" /\ ipc = "listing"
    /\ IF n = 0
       THEN ipc' = "raised" /\ UNCHANGED <<jobs, imp>>
       ELSE /\ Emit(DailyStartEvent(n))
            /\ imp' = [total |-> n, processed |-> 0, failed |-> 0]
            /\ ipc' = "archives"
    /\ UNCHANGED <<wpc, snap>>
    /\ UNCHANGED <<impVars, qryVars, lockVars, runVars, wrVars>>

\* one iteration of the archive loop: try / except Exception / finally
ImportArchive(ok) ==
    /\ wpc = "target" /\ ipc = "archives"
    /\ imp.processed + imp.failed < imp.total
    /\ LET p == IF ok THEN imp.processed + 1 ELSE imp.processed
           f == IF ok THEN imp.failed ELSE imp.failed + 1
       IN /\ imp' = [imp EXCEPT !.processed = p, !.failed = f]
          /\ Emit(DailyArchiveEvent(imp.total, p, f))
    /\ UNCHANGED <<wpc, ipc, snap>>
    /\ UNCHANGED <<impVars, qryVars, lockVars, runVars, wrVars>>

\* a run that reports completion while archives are still to come
ImportCompleteEarly ==
    /\ wpc = "target" /\ ipc = "archives"
    /\ Emit(CompleteEvent("weather", imp.processed, imp.failed))
    /\ ipc' = IF imp.processed + imp.failed = imp.total THEN "returned"
              ELSE ipc
    /\ UNCHANGED <<wpc, imp, snap>>
    /\ UNCHANGED <<impVars, qryVars, lockVars, runVars, wrVars>>

\* run_full_refresh after _import_daily_archives returned
ImportComplete ==
    /\ wpc = "target" /\ ipc = "archives"
    /\ imp.processed + imp.failed = imp.total
    /\ Emit(CompleteEvent("weather", imp.processed, imp.failed))
    /\ ipc' = "returned"
    /\ UNCHANGED <<wpc, imp, snap>>
    /\ UNCHANGED <<impVars, qryVars, lockVars, runVars, wrVars>>

\* a worker that marks the job completed while target is still running
RunJobCompletedEarly ==
    /\ wpc = "target" /\ ipc # "raised"
    /\ jobs' = [jobs EXCEPT ![JobId] =
                    JobStateUpdate(@, CompletedChanges(@, "report"))]
    /\ wpc' = IF ipc = "returned" THEN "done" ELSE wpc
    /\ UNCHANGED <<ipc, imp, snap>>
    /\ UNCHANGED <<impVars, qryVars, lockVars, runVars, wrVars>>

\* _run_job: target returned
RunJobCompleted ==
    /\ wpc = "target" /\ ipc = "returned"
    /\ jobs' = [jobs EXCEPT ![JobId] =
                    JobStateUpdate(@, CompletedChanges(@, "report"))]
    /\ wpc' = "done"
    /\ UNCHANGED <<ipc, imp, snap>>
    /\ UNCHANGED <<impVars, qryVars, lockVars, runVars, wrVars>>

\* _run_job: target raised
RunJobFailed ==
    /\ wpc = "target" /\ ipc = "raised"
    /\ jobs' = [jobs EXCEPT ![JobId] =
                    JobStateUpdate(@, FailedChanges("exc"))]
    /\ wpc' = "done"
    /\ UNCHANGED <<ipc, imp, snap>>
    /\ UNCHANGED <<impVars, qryVars, lockVars, runVars, wrVars>>

\* fetch_import_job: get_job, then to_dict (job_not_found leaves no snapshot)
FetchImportJob(r) ==
    /\ JobId \in DOMAIN jobs
    /\ snap' = [snap EXCEPT ![r] = <<ToDict(jobs[JobId])>>]
    /\ UNCHANGED <<jobs, wpc, ipc, imp>>
    /\ UNCHANGED <<impVars, qryVars, lockVars, runVars, wrVars>>

Worker ==
    \/ RunJobBegin
    \/ ImportPrepare
    \/ ImportStationsRaise
    \/ ImportStationsOk
    \/ \E n \in 0..MaxArchives : ImportListing(n)
    \/ \E ok \in BOOLEAN : ImportArchive(ok)
    \/ ImportComplete
    \/ RunJobCompleted
    \/ RunJobFailed

JobNext ==
    \/ \E kind \in JobKinds : StartJob(kind)
    \/ Worker
    \/ \E r \in Readers : FetchImportJob(r)

\* _run_job around any work function: target is called with the
\* progress_handler bound and may call it with any percentage, in hundredths
ReportedPercents == {0, Pct(50), Pct(99) - 1, Pct(99), Pct(100), Pct(150)}

\* progress_handler as _run_job defines it: the percentage is stored as given
HandlerChanges(j, percent, message, detail) ==
    [progress |-> percent, message |-> message,
     stage |-> IF "stage" \in DOMAIN detail THEN detail.stage ELSE j.stage,
     detail |-> detail]

\* target calls progress_handler(percent, message, detail)
TargetReports(percent) ==
    /\ wpc = "target" /\ ipc = "prepare"
    /\ jobs' = [jobs EXCEPT ![JobId] =
                    JobStateUpdate(@, HandlerChanges(@, percent, "Arbeitet",
                                      [stage |-> "work", percent |-> percent]))]
    /\ UNCHANGED <<wpc, ipc, imp, snap>>
    /\ UNCHANGED <<impVars, qryVars, lockVars, runVars, wrVars>>

\* result = target(*args, **bound_kwargs) returns
TargetReturns ==
    /\ wpc = "target" /\ ipc = "prepare"
    /\ ipc' = "returned"
    /\ UNCHANGED <<jobs, wpc, imp, snap>>
    /\ UNCHANGED <<impVars, qryVars, lockVars, runVars, wrVars>>

\* target raises
TargetRaises ==
    /\ wpc = "target" /\ ipc = "prepare"
    /\ ipc' = "raised"
    /\ UNCHANGED <<jobs, wpc, imp, snap>>
    /\ UNCHANGED <<impVars, qryVars, lockVars, runVars, wrVars>>

RunJobNext ==
    \/ \E kind \in JobKinds : StartJob(kind)
    \/ RunJobBegin
    \/ \E percent \in ReportedPercents : TargetReports(percent)
    \/ TargetReturns
    \/ TargetRaises
    \/ RunJobCompleted
    \/ RunJobFailed
    \/ \E r \in Readers : FetchImportJob(r)


(***************************************************************************)
(*                    DWD importer: text normalisation                     *)
(*                                                                         *)
(* A Python str is a sequence of one-character strings; None is the empty  *)
(* tuple and a value v that is present is <<v>>.                           *)
(***************************************************************************)
None == <<>>
Some(v) == <<v>>

DecDigit == {"0", "1", "2", "3", "4", "5", "6", "7", "8", "9"}
\* characters of ISO-8859-1 for which str.isdigit() is true and int() raises
\* ValueError: the superscripts U+00B2, U+00B3, U+00B9
SuperDigit == {"sup1", "sup2", "sup3"}
Whitespace == {" "}
BOM == {"bom"}

DigitVal(c) ==
    CASE c = "0" -> 0 [] c = "1" -> 1 [] c = "2" -> 2 [] c = "3" -> 3
      [] c = "4" -> 4 [] c = "5" -> 5 [] c = "6" -> 6 [] c = "7" -> 7
      [] c = "8" -> 8 [] c = "9" -> 9

RECURSIVE LStrip(_, _)
\* str.lstrip(chars)
LStrip(t, chars) ==
    IF t # <<>> /\ Head(t) \in chars THEN LStrip(Tail(t), chars) ELSE t

RECURSIVE RStrip(_, _)
RStrip(t, chars) ==
    IF t # <<>> /\ t[Len(t)] \in chars
    THEN RStrip(SubSeq(t, 1, Len(t) - 1), chars) ELSE t

\* str.strip()
Strip(t) == RStrip(LStrip(t, Whitespace), Whitespace)

\* str.isdigit()
IsDigit(t) == t # <<>> /\ \A i \in 1..Len(t) : t[i] \in DecDigit \cup SuperDigit

RECURSIVE DecValue(_)
DecValue(t) ==
    IF t = <<>> THEN 0
    ELSE 10 * DecValue(SubSeq(t, 1, Len(t) - 1)) + DigitVal(t[Len(t)])

\* int(text) of a text that passed isdigit(): None stands for ValueError
IntOf(t) ==
    IF \A i \in 1..Len(t) : t[i] \in DecDigit THEN Some(DecValue(t)) ELSE None

SENT_999 == <<"-", "9", "9", "9">>
SENT_999_0 == <<"-", "9", "9", "9", ".", "0">>
SENT_9999 == <<"-", "9", "9", "9", "9">>
SENT_9999_0 == <<"-", "9", "9", "9", "9", ".", "0">>

\* SENTINEL_VALUES
SENTINEL_VALUES ==
    {SENT_999, SENT_999_0, SENT_9999, SENT_9999_0}

\* _normalize_station_id: [raised |-> an exception left the function,
\*                          val |-> the return value]
NormalizeStationId(value) ==
    IF value = None THEN [raised |-> FALSE, val |-> None]
    ELSE LET text == LStrip(Strip(value[1]), BOM)
         IN IF text = <<>> THEN [raised |-> FALSE, val |-> None]
            ELSE IF ~IsDigit(text) THEN [raised |-> FALSE, val |-> None]
            ELSE IF IntOf(text) = None THEN [raised |-> TRUE, val |-> None]
            ELSE IF IntOf(text)[1] <= 0 THEN [raised |-> FALSE, val |-> None]
            ELSE [raised |-> FALSE, val |-> IntOf(text)]

\* datetime.strptime(value, '%Y%m%d'): None stands for ValueError.  Every
\* date of RawRecords that reaches it holds a character that is no digit.
Strptime(value) ==
    IF \E i \in 1..Len(value) : value[i] \notin DecDigit THEN None
    ELSE IF Len(value) = 8 THEN Some(value) ELSE None

CountOf(t, c) == Cardinality({i \in 1..Len(t) : t[i] = c})

\* _normalize_date
NormalizeDate(value) ==
    IF value = None \/ value[1] = <<>> THEN None
    ELSE LET v == Strip(value[1])
         IN IF v = <<>> \/ v \in SENTINEL_VALUES THEN None
            ELSE IF Len(v) = 8 /\ IsDigit(v)
                 THEN Some(SubSeq(v, 1, 4) \o <<"-">> \o SubSeq(v, 5, 6)
                           \o <<"-">> \o SubSeq(v, 7, 8))
            ELSE IF Len(v) = 10 /\ CountOf(v, "-") = 2 THEN Some(v)
            ELSE IF Strptime(v) # None
                 THEN Some(SubSeq(v, 1, 4) \o <<"-">> \o SubSeq(v, 5, 6)
                           \o <<"-">> \o SubSeq(v, 7, 8))
            ELSE Some(v)

\* text.replace(',', '.')
ReplaceComma(t) == [i \in 1..Len(t) |-> IF t[i] = "," THEN "." ELSE t[i]]

\* float(text), in tenths; None stands for ValueError.  Covers the shapes of
\* RawRecords: an optional sign, digits, and at most one digit after the point.
FloatOf(t) ==
    LET neg == t # <<>> /\ t[1] = "-"
        u == IF neg THEN Tail(t) ELSE t
        dot == {i \in 1..Len(u) : u[i] = "."}
        ip == IF dot = {} THEN u ELSE SubSeq(u, 1, (CHOOSE i \in dot : TRUE) - 1)
        fp == IF dot = {} THEN <<>>
              ELSE SubSeq(u, (CHOOSE i \in dot : TRUE) + 1, Len(u))
        digits(s) == \A i \in 1..Len(s) : s[i] \in DecDigit
        mag == 10 * DecValue(ip) + (IF fp = <<>> THEN 0 ELSE DecValue(fp))
    IN IF Cardinality(dot) <= 1 /\ ip # <<>> /\ digits(ip) /\ digits(fp)
          /\ Len(fp) <= 1
       THEN Some(IF neg THEN 0 - mag ELSE mag)
       ELSE None

\* _convert_value with column_type 'float'
ConvertValue(value) ==
    IF value = None THEN None
    ELSE LET text == Strip(value[1])
         IN IF text = <<>> \/ text \in SENTINEL_VALUES THEN None
            ELSE FloatOf(ReplaceComma(text))

\* the measurement columns of DAILY_COLUMN_TYPES the model carries; the code
\* treats the other fifteen the same way, in the same loops and SQL lists
MeasureColumns == {"tmk", "rsk"}

\* _normalize_daily_record: [raised, rec]; rec = None when the record is dropped
NormalizeDailyRecord(payload, filename) ==
    LET sid == NormalizeStationId(payload.stations_id)
        date_raw == payload.mess_datum
    IN IF sid.raised THEN [raised |-> TRUE, rec |-> None]
       ELSE IF sid.val = None \/ date_raw = None \/ date_raw[1] = <<>>
       THEN [raised |-> FALSE, rec |-> None]
       ELSE [raised |-> FALSE,
             rec |-> Some([station_id |-> sid.val[1],
                           date |-> NormalizeDate(date_raw),
                           tmk |-> ConvertValue(payload.tmk),
                           rsk |-> ConvertValue(payload.rsk),
                           source_filename |-> filename])]

\* ---- the rows the archives of the model can hold (payload of one csv row)
Payload(sid, date, tmk, rsk) ==
    [stations_id |-> sid, mess_datum |-> date, tmk |-> tmk, rsk |-> rsk]

RawRecords ==
    { \* station 7, 2022-07-15, in the two date forms and with different values
      Payload(Some(<<"7">>), Some(<<"2", "0", "2", "2", "0", "7", "1", "5">>), Some(<<"2", "0", ".", "5">>), Some(<<"5", ".", "0">>)),
      Payload(Some(<<" ", "0", "7">>), Some(<<"2", "0", "2", "2", "-", "0", "7", "-", "1", "5">>), Some(SENT_999), Some(<<"1", ",", "5">>)),
      \* station 8, 2022-07-16
      Payload(Some(<<"8">>), Some(<<"2", "0", "2", "2", "0", "7", "1", "6">>), Some(<<"1", "8", ".", "0">>), Some(<<>>)),
      \* station identifiers that are no positive integer
      Payload(Some(<<"a", "b", "c">>), Some(<<"2", "0", "2", "2", "0", "7", "1", "5">>), Some(<<"2", "0", ".", "5">>), Some(<<"5", ".", "0">>)),
      Payload(Some(<<"0">>), Some(<<"2", "0", "2", "2", "0", "7", "1", "5">>), Some(<<"2", "0", ".", "5">>), Some(<<"5", ".", "0">>)),
      Payload(Some(<<"-", "5">>), Some(<<"2", "0", "2", "2", "0", "7", "1", "5">>), Some(<<"2", "0", ".", "5">>), Some(<<"5", ".", "0">>)),
      Payload(Some(<<"sup2">>), Some(<<"2", "0", "2", "2", "0", "7", "1", "5">>), Some(<<"2", "0", ".", "5">>), Some(<<"5", ".", "0">>)),
      \* a sentinel in the date column
      Payload(Some(<<"7">>), Some(SENT_999), Some(<<"2", "0", ".", "5">>), Some(<<"5", ".", "0">>)) }

(***************************************************************************)
(*                 DWD importer: daily archives and daily_kl               *)
(***************************************************************************)
KeyOf(rec) == <<rec.station_id, rec.date>>

\* a buffer that keeps the first record of a key
BatchPutKeepsFirst(b, rec) ==
    IF \E i \in 1..Len(b) : KeyOf(b[i]) = KeyOf(rec) THEN b ELSE Append(b, rec)

\* batch[key] = normalized: a dict keeps the place of a key it already holds
BatchPut(b, rec) ==
    IF \E i \in 1..Len(b) : KeyOf(b[i]) = KeyOf(rec)
    THEN [i \in 1..Len(b) |-> IF KeyOf(b[i]) = KeyOf(rec) THEN rec ELSE b[i]]
    ELSE Append(b, rec)

\* the row one parameter tuple of _persist_daily_batch stands for (the
\* column updated_at, the time of the write, is left out)
RowOf(rec) ==
    [station_id |-> rec.station_id, date |-> rec.date[1], tmk |-> rec.tmk,
     rsk |-> rec.rsk, source_filename |-> rec.source_filename]

RowKey(row) == <<row.station_id, row.date>>

\* an upsert whose SET list misses a column (rsk keeps its old value)
UpsertRowPartial(table, row) ==
    IF \E r \in table : RowKey(r) = RowKey(row)
    THEN {IF RowKey(r) = RowKey(row) THEN [row EXCEPT !.rsk = r.rsk] ELSE r :
            r \in table}
    ELSE table \cup {row}

\* a plain INSERT into a table without the primary key
UpsertRowNoConflict(table, row) == table \cup {row}

\* INSERT ... ON CONFLICT(station_id, date) DO UPDATE SET every other column
\* = excluded.<column>, for one parameter tuple
UpsertRow(table, row) ==
    {r \in table : RowKey(r) # RowKey(row)} \cup {row}

RECURSIVE ExecuteMany(_, _)
\* conn.executemany(sql, params_list): the tuples in order
ExecuteMany(table, recs) ==
    IF recs = <<>> THEN table
    ELSE ExecuteMany(UpsertRow(table, RowOf(Head(recs))), Tail(recs))

\* date TEXT NOT NULL of DAILY_KL_TABLE_SQL: sqlite3.IntegrityError
ViolatesNotNull(recs) == \E i \in 1..Len(recs) : recs[i].date = None

\* a lookup that is not restricted to the keys of the batch
FetchAllDailyPairs(table, recs) == {RowKey(r) : r \in table}

\* _fetch_existing_daily_pairs
FetchExistingDailyPairs(table, recs) ==
    {RowKey(r) : r \in {x \in table :
        \E i \in 1..Len(recs) :
            recs[i].date # None /\ RowKey(x) = <<recs[i].station_id, recs[i].date[1]>>}}

NewStats == [inserted |-> 0, updated |-> 0, archives_processed |-> 0,
             archives_failed |-> 0, errors |-> <<>>]
NewHist ==
    [submitted |-> {}, committed |-> {}, attempted |-> <<>>, raised |-> {},
     first |-> <<>>]

ImportInit ==
    /\ source = <<>>
    /\ run = 0
    /\ pc = "idle"
    /\ idx = 0
    /\ pos = 0
    /\ batch = <<>>
    /\ attempts = 0
    /\ daily_kl = {}
    /\ stats = NewStats
    /\ file_stats = NewStats
    /\ hist = NewHist

RowsRead == LET n[i \in 0..Len(source)] ==
                    IF i = 0 THEN 0 ELSE n[i - 1] + Len(source[i].rows)
            IN n[Len(source)]

\* _import_daily_archives up to the loop.  The first run fixes the listing:
\* n names ending in ARCHIVE_SUFFIX, sorted; a later run finds the same.
\* run is 1 in the first run and 2 in every later one.
BeginRun(n) ==
    /\ pc \in {"idle", "returned", "raised"}
    /\ IF run = 0
       THEN source' = [i \in 1..n |-> [kind |-> "unread", rows |-> <<>>]]
       ELSE n = Len(source) /\ UNCHANGED source
    /\ run' = IF run = 0 THEN 1 ELSE 2
    /\ stats' = NewStats
    /\ file_stats' = NewStats
    /\ batch' = <<>>
    /\ attempts' = 0
    /\ pos' = 0
    /\ hist' = [submitted |-> {}, committed |-> {},
                attempted |-> [i \in 1..n |-> 0], raised |-> {},
                first |-> IF run = 1
                          THEN <<[kl |-> daily_kl,
                                  failed |-> stats.archives_failed]>>
                          ELSE hist.first]
    /\ IF n = 0
       THEN pc' = "raised" /\ idx' = 0
       ELSE pc' = "archive" /\ idx' = 1
    /\ UNCHANGED daily_kl
    /\ UNCHANGED <<jobVars, qryVars, lockVars, runVars, wrVars>>

\* the end of one loop iteration: finally, then the next archive or return
NextArchive == IF idx < Len(source) THEN "archive" ELSE "returned"

\* a handler that records the message but does not count the failure
ExceptHandlerNoCount(st, filename) ==
    [st EXCEPT !.errors = Append(@, filename)]

\* except Exception as exc: archives_failed += 1, errors.append(...)
ExceptHandler(st, filename) ==
    [st EXCEPT !.archives_failed = @ + 1, !.errors = Append(@, filename)]

\* the loop iteration ends with an exception from _import_single_archive
ArchiveRaises ==
    /\ stats' = ExceptHandler(stats, idx)
    /\ hist' = [hist EXCEPT !.raised = @ \cup {idx}]
    /\ pc' = NextArchive
    /\ idx' = idx + 1
    /\ batch' = <<>>
    /\ attempts' = 0
    /\ pos' = 0
    /\ file_stats' = NewStats
    /\ UNCHANGED daily_kl

\* the loop iteration ends with file_stats returned
ArchiveReturns ==
    /\ stats' = [stats EXCEPT !.inserted = @ + file_stats.inserted,
                              !.updated = @ + file_stats.updated,
                              !.archives_processed = @ + 1]
    /\ pc' = NextArchive
    /\ idx' = idx + 1
    /\ batch' = <<>>
    /\ attempts' = 0
    /\ pos' = 0
    /\ file_stats' = NewStats
    /\ UNCHANGED <<daily_kl, hist>>

Attempt == hist' = [hist EXCEPT !.attempted[idx] = @ + 1]

\* _import_single_archive: self._download raises
DownloadFails ==
    /\ pc = "archive"
    /\ stats' = ExceptHandler(stats, idx)
    /\ hist' = [hist EXCEPT !.raised = @ \cup {idx}, !.attempted[idx] = @ + 1]
    /\ pc' = NextArchive
    /\ idx' = idx + 1
    /\ UNCHANGED <<source, run, pos, batch, attempts, daily_kl, file_stats>>
    /\ UNCHANGED <<jobVars, qryVars, lockVars, runVars, wrVars>>

\* _import_single_archive: the ZIP is opened.  Without a .txt member it raises
\* RuntimeError; with one, _parse_and_store_daily starts.
OpenArchive(kind) ==
    /\ pc = "archive"
    /\ IF run = 1
       THEN source' = [source EXCEPT ![idx].kind = kind]
       ELSE /\ kind = (IF source[idx].kind = "unread" THEN "zip"
                       ELSE source[idx].kind)
            /\ UNCHANGED source
    /\ IF kind = "no_txt"
       THEN /\ stats' = ExceptHandler(stats, idx)
            /\ hist' = [hist EXCEPT !.raised = @ \cup {idx},
                                    !.attempted[idx] = @ + 1]
            /\ pc' = NextArchive
            /\ idx' = idx + 1
            /\ UNCHANGED <<pos, file_stats>>
       ELSE /\ Attempt
            /\ pc' = "parse"
            /\ pos' = 1
            /\ file_stats' = NewStats
            /\ UNCHANGED <<stats, idx>>
    /\ UNCHANGED <<run, batch, attempts, daily_kl>>
    /\ UNCHANGED <<jobVars, qryVars, lockVars, runVars, wrVars>>

\* _parse_and_store_daily: one data row of the csv reader, of at most limit
\* rows the run reads
ParseRowUpTo(raw, limit) ==
    /\ pc = "parse"
    /\ IF run = 1
       THEN /\ RowsRead < limit
            /\ source' = [source EXCEPT ![idx].rows = Append(@, raw)]
       ELSE /\ pos <= Len(source[idx].rows)
            /\ raw = source[idx].rows[pos]
            /\ UNCHANGED source
    /\ LET n == NormalizeDailyRecord(raw, idx)
       IN IF n.raised
          THEN ArchiveRaises
          ELSE /\ pos' = pos + 1
               /\ IF n.rec = None
                  THEN UNCHANGED <<batch, pc, hist>>
                  ELSE /\ batch' = BatchPut(batch, n.rec[1])
                       /\ IF Len(batch') >= CHUNK_SIZE
                          THEN /\ pc' = "write"
                               /\ hist' = [hist EXCEPT !.submitted =
                                     @ \cup {KeyOf(batch'[i]) : i \in 1..Len(batch')}]
                          ELSE UNCHANGED <<pc, hist>>
               /\ UNCHANGED <<stats, file_stats, idx, attempts, daily_kl>>
    /\ UNCHANGED run
    /\ UNCHANGED <<jobVars, qryVars, lockVars, runVars, wrVars>>

ParseRow(raw) == ParseRowUpTo(raw, MaxRows)

\* a parse that returns without the flush after the loop
EndOfFileNoFlush ==
    /\ pc = "parse"
    /\ run = 1 \/ pos > Len(source[idx].rows)
    /\ ArchiveReturns
    /\ UNCHANGED <<source, run>>
    /\ UNCHANGED <<jobVars, qryVars, lockVars, runVars, wrVars>>

\* _parse_and_store_daily: the reader is exhausted
EndOfFile ==
    /\ pc = "parse"
    /\ run = 1 \/ pos > Len(source[idx].rows)
    /\ IF batch # <<>>
       THEN /\ pc' = "write"
            /\ hist' = [hist EXCEPT !.submitted =
                            @ \cup {KeyOf(batch[i]) : i \in 1..Len(batch)}]
            /\ pos' = Len(source[idx].rows) + 1
            /\ UNCHANGED <<stats, idx, batch, attempts, file_stats, daily_kl>>
       ELSE ArchiveReturns
    /\ UNCHANGED <<source, run>>
    /\ UNCHANGED <<jobVars, qryVars, lockVars, runVars, wrVars>>

\* _persist_daily_batch, the statement commits: with conn: executemany
WriteCommits ==
    /\ pc = "write"
    /\ ~ViolatesNotNull(batch)
    /\ LET existing == FetchExistingDailyPairs(daily_kl, batch)
       IN file_stats' = [file_stats EXCEPT
                            !.inserted = @ + Len(batch) - Cardinality(existing),
                            !.updated = @ + Cardinality(existing)]
    /\ daily_kl' = ExecuteMany(daily_kl, batch)
    /\ hist' = [hist EXCEPT !.committed =
                    @ \cup {KeyOf(batch[i]) : i \in 1..Len(batch)}]
    /\ batch' = <<>>
    /\ attempts' = 0
    /\ pc' = "parse"
    /\ UNCHANGED <<source, run, idx, pos, stats>>
    /\ UNCHANGED <<jobVars, qryVars, lockVars, runVars, wrVars>>

\* _executemany_with_retry: OperationalError 'database is locked'; the
\* transaction is rolled back, and retried while attempts < SQLITE_LOCK_RETRIES
WriteLocked ==
    /\ pc = "write"
    /\ IF attempts < SQLITE_LOCK_RETRIES
       THEN /\ attempts' = attempts + 1
            /\ UNCHANGED <<pc, idx, pos, batch, stats, file_stats, daily_kl, hist>>
       ELSE ArchiveRaises
    /\ UNCHANGED <<source, run>>
    /\ UNCHANGED <<jobVars, qryVars, lockVars, runVars, wrVars>>

\* _executemany_with_retry: any other error of the statement (IntegrityError
\* of NOT NULL, or another OperationalError) is raised at once
WriteFails ==
    /\ pc = "write"
    /\ ArchiveRaises
    /\ UNCHANGED <<source, run>>
    /\ UNCHANGED <<jobVars, qryVars, lockVars, runVars, wrVars>>

ImportNext ==
    \/ \E n \in 0..MaxArchives : BeginRun(n)
    \/ DownloadFails
    \/ \E kind \in {"zip", "no_txt"} : OpenArchive(kind)
    \/ \E raw \in RawRecords : ParseRow(raw)
    \/ EndOfFile
    \/ WriteCommits
    \/ WriteLocked
    \/ WriteFails

\* ---- one run over the rows that are kept and have a date, and one row
\* more, so that an archive goes on after its first flush
ChunkRecords ==
    {raw \in RawRecords :
        /\ ~NormalizeDailyRecord(raw, 1).raised
        /\ NormalizeDailyRecord(raw, 1).rec # None
        /\ NormalizeDailyRecord(raw, 1).rec[1].date # None}

\* the first import run against the empty table
BeginOnce(n) ==
    /\ run = 0
    /\ BeginRun(n)

ParseChunkRow(raw) == ParseRowUpTo(raw, MaxChunkRows)

ChunkNext ==
    \/ \E n \in 0..MaxArchives : BeginOnce(n)
    \/ DownloadFails
    \/ \E kind \in {"zip", "no_txt"} : OpenArchive(kind)
    \/ \E raw \in ChunkRecords : ParseChunkRow(raw)
    \/ EndOfFile
    \/ WriteCommits
    \/ WriteLocked
    \/ WriteFails

(***************************************************************************)
(*                 Geo selector (reports/geo.py) and stations              *)
(***************************************************************************)
\* Coordinates are in 1/10000 degree, distances in metres.
\* rows of table stations the station import can store: station_id and the
\* two coordinates (None for NULL); the first NumStations are in use
StationTable ==
    << [station_id |-> 7,  latitude |-> Some(500018), longitude |-> Some(80000)],
       [station_id |-> 8,  latitude |-> Some(500000), longitude |-> Some(80042)],
       [station_id |-> 9,  latitude |-> None,         longitude |-> Some(80000)],
       [station_id |-> 10, latitude |-> Some(500000), longitude |-> Some(92000)],
       [station_id |-> 11, latitude |-> Some(510000), longitude |-> Some(80000)],
       [station_id |-> 12, latitude |-> Some(500000), longitude |-> Some(80200)] >>

\* the points searches are made from
QueryPoints == { [lat |-> 500000, lon |-> 80000], [lat |-> 510000, lon |-> 80000] }
\* radius_km of a search, in metres; 100 and 250 lie under the floor of
\* 0.5 km
RadiiM == {100, 250, 1000, 100000, 120000}
\* limit: 12 by default, clamped to 1 or more by the routes that pass one
DefaultLimit == 12
Limits == {1, 2, DefaultLimit}

\* haversine_km(lat1, lon1, lat2, lon2) * 1000 rounded to the metre, at the
\* points of QueryPoints and StationTable (r = 6371.0)
HaversineM(lat1, lon1, lat2, lon2) ==
    LET p == <<lat1, lon1, lat2, lon2>>
    IN CASE p = <<500000, 80000, 500018, 80000>> -> 200
         [] p = <<500000, 80000, 500000, 80042>> -> 300
         [] p = <<500000, 80000, 500000, 92000>> -> 85769
         [] p = <<500000, 80000, 510000, 80000>> -> 111195
         [] p = <<500000, 80000, 500000, 80200>> -> 1429
         [] p = <<510000, 80000, 500018, 80000>> -> 110995
         [] p = <<510000, 80000, 500000, 80042>> -> 111195
         [] p = <<510000, 80000, 500000, 92000>> -> 139881
         [] p = <<510000, 80000, 510000, 80000>> -> 0
         [] p = <<510000, 80000, 500000, 80200>> -> 111204

\* abs(cos(radians(lat))) in thousandths, at the latitudes of QueryPoints
AbsCosMilli(lat) == CASE lat = 500000 -> 643 [] lat = 510000 -> 629

Abs(x) == IF x < 0 THEN 0 - x ELSE x

\* radius_km = max(0.5, float(radius_km))
EffectiveRadius(radius) == Max(500, radius)

\* WHERE latitude IS NOT NULL AND longitude IS NOT NULL
Geocoded(table) == {s \in table : s.latitude # None /\ s.longitude # None}

\* latitude BETWEEN lat - lat_delta AND lat + lat_delta, lat_delta =
\* radius_km / 111.0; longitude BETWEEN lon - lon_delta AND lon + lon_delta,
\* lon_delta = radius_km / (111.0 * max(0.1, abs(cos(radians(lat)))))
InBoundingBox(s, lat, lon, radius_m) ==
    /\ Abs(s.latitude[1] - lat) * 111 <= radius_m * 10
    /\ Abs(s.longitude[1] - lon) * 111 * Max(100, AbsCosMilli(lat))
          <= radius_m * 10000

Distance(s, lat, lon) == HaversineM(lat, lon, s.latitude[1], s.longitude[1])

\* the rows of the first SELECT that pass distance <= radius_km
Matches(table, lat, lon, radius_m) ==
    {s \in Geocoded(table) :
        /\ InBoundingBox(s, lat, lon, radius_m)
        /\ Distance(s, lat, lon) <= radius_m}

\* ORDER BY (latitude - ?)*(latitude - ?) + (longitude - ?)*(longitude - ?)
Proxy(s, lat, lon) ==
    (s.latitude[1] - lat) * (s.latitude[1] - lat)
        + (s.longitude[1] - lon) * (s.longitude[1] - lon)

\* a search that has no second SELECT
NoFallback(table, lat, lon) == {}

\* the rows the second SELECT may return with LIMIT 1: a row with the least
\* value of the ORDER BY expression (any of them on a tie)
NearestFallback(table, lat, lon) ==
    {s \in Geocoded(table) :
        \A t \in Geocoded(table) : Proxy(s, lat, lon) <= Proxy(t, lat, lon)}

\* one dict of the payload; distance_km = round(distance, 2), in 1/100 km
PayloadEntry(s, lat, lon) ==
    [station_id |-> s.station_id, latitude |-> s.latitude[1],
     longitude |-> s.longitude[1],
     distance_km |-> (Distance(s, lat, lon) + 5) \div 10]

RECURSIVE SortedByDistance(_, _, _)
\* matches.sort(key=distance): the orders a stable sort can leave the rows
\* in, whatever order the SELECT returned them in
SortedByDistance(set, lat, lon) ==
    IF set = {} THEN {<<>>}
    ELSE UNION {{<<s>> \o rest : rest \in SortedByDistance(set \ {s}, lat, lon)} :
                 s \in {m \in set : \A t \in set :
                            Distance(m, lat, lon) <= Distance(t, lat, lon)}}

\* a payload of all matches, whatever the limit
NoTruncate(seq, limit) == seq

\* matches[:limit], limit >= 1
Truncate(seq, limit) == SubSeq(seq, 1, Min(limit, Len(seq)))

\* _stations_within_radius: the payloads it can return
StationsWithinRadiusPayloads(table, lat, lon, radius, limit) ==
    LET radius_m == EffectiveRadius(radius)
        within == Matches(table, lat, lon, radius_m)
        matches == IF within # {} THEN {within}
                   ELSE IF NearestFallback(table, lat, lon) = {} THEN {{}}
                   ELSE {{s} : s \in NearestFallback(table, lat, lon)}
    IN UNION {{[i \in 1..Len(Truncate(seq, limit)) |->
                    PayloadEntry(seq[i], lat, lon)] :
                 seq \in SortedByDistance(m, lat, lon)} : m \in matches}

\* the SELECT statements one search runs
GeoQueries(table, lat, lon, radius) ==
    IF Matches(table, lat, lon, EffectiveRadius(radius)) # {}
    THEN <<"bbox">> ELSE <<"bbox", "nearest">>

GeoInit ==
    /\ stations = {}
    /\ geo = None

\* _persist_station_batch: INSERT ... ON CONFLICT(station_id) DO UPDATE of
\* a batch of the description file, the rows ids of StationTable
PersistStationBatch(ids) ==
    /\ stations' = {s \in stations :
                        \A i \in ids : s.station_id # StationTable[i].station_id}
                      \cup {StationTable[i] : i \in ids}
    /\ geo' = None
    /\ rep' = None
    /\ UNCHANGED <<jobVars, impVars, lockVars, runVars, wrVars>>

\* stations_within_radius (list_stations_in_radius returns the same list
\* without raising)
StationsWithinRadius(q, radius, limit) ==
    /\ \E payload \in StationsWithinRadiusPayloads(stations, q.lat, q.lon,
                                                   radius, limit) :
          geo' = Some([lat |-> q.lat, lon |-> q.lon, radius |-> radius,
                       limit |-> limit, stored |-> stations,
                       stations |-> payload,
                       error |-> IF payload = <<>> THEN "no_stations"
                                 ELSE "none"])
    /\ UNCHANGED <<stations, rep>>
    /\ UNCHANGED <<jobVars, impVars, lockVars, runVars, wrVars>>

GeoNext ==
    \/ \E ids \in SUBSET (1..NumStations) \ {{}} : PersistStationBatch(ids)
    \/ \E q \in QueryPoints, radius \in RadiiM, limit \in Limits :
          StationsWithinRadius(q, radius, limit)

(***************************************************************************)
(*                  Report generator (reports/generate.py)                 *)
(***************************************************************************)
D_0715 == <<"2", "0", "2", "2", "-", "0", "7", "-", "1", "5">>
D_0716 == <<"2", "0", "2", "2", "-", "0", "7", "-", "1", "6">>
D_0801 == <<"2", "0", "2", "2", "-", "0", "8", "-", "0", "1">>
D_2021 == <<"2", "0", "2", "1", "-", "1", "2", "-", "3", "1">>
\* 30 February: three integers that are no date
D_0230 == <<"2", "0", "2", "2", "-", "0", "2", "-", "3", "0">>
\* 2 July written without the leading zero of the day
D_72 == <<"2", "0", "2", "2", "-", "0", "7", "-", "2">>

\* rows of daily_kl a committed import can have stored; the first NumDays
\* are in use
DayTable ==
    << [station_id |-> 7, date |-> D_0715, tmk |-> Some(205),
        txk |-> Some(250), tnk |-> Some(152), rsk |-> Some(50),
        sdk |-> Some(100), source_filename |-> 1],
       [station_id |-> 7, date |-> D_2021, tmk |-> Some(10),
        txk |-> Some(35), tnk |-> Some(-30), rsk |-> Some(0),
        sdk |-> None, source_filename |-> 2],
       [station_id |-> 11, date |-> D_0801, tmk |-> None,
        txk |-> None, tnk |-> None, rsk |-> None,
        sdk |-> None, source_filename |-> 2],
       [station_id |-> 8, date |-> D_0716, tmk |-> Some(180),
        txk |-> None, tnk |-> Some(121), rsk |-> None,
        sdk |-> Some(64), source_filename |-> 1] >>

\* start_date and end_date of the report queries
DateInputs == {D_0715, D_0801, D_0230, D_72, D_2021}
Granularities == {"day", "month", "year", "week"}
\* radius of the report queries, in metres
ReportRadiiM == {100, 120000}
ReportPoint == [lat |-> 500000, lon |-> 80000]
\* the station batches stored before a report: the station without
\* latitude alone, or the whole description file
ReportBatches == {{3}, 1..NumStations}

\* code point of the characters dates are written with
Ord(c) == CASE c = "-" -> 45 [] c = "." -> 46 [] c \in DecDigit -> 48 + DigitVal(c)

\* a < b of two str (and of two TEXT values in SQLite's BINARY collation)
StrLess(a, b) ==
    LET diff == {i \in 1..Min(Len(a), Len(b)) : a[i] # b[i]}
        k == CHOOSE i \in diff : \A j \in diff : i <= j
    IN IF diff = {} THEN Len(a) < Len(b) ELSE Ord(a[k]) < Ord(b[k])

StrLeq(a, b) == a = b \/ StrLess(a, b)

RECURSIVE Split(_, _)
\* value.split(sep)
Split(t, sep) ==
    IF \A i \in 1..Len(t) : t[i] # sep THEN <<t>>
    ELSE LET k == CHOOSE i \in 1..Len(t) :
                     t[i] = sep /\ \A j \in 1..(i - 1) : t[j] # sep
         IN <<SubSeq(t, 1, k - 1)>> \o Split(SubSeq(t, k + 1, Len(t)), sep)

\* int(x) of a part of a date text: decimal digits between optional
\* whitespace; None stands for ValueError
ParseInt(t) ==
    LET u == Strip(t)
    IN IF u # <<>> /\ \A i \in 1..Len(u) : u[i] \in DecDigit
       THEN Some(DecValue(u)) ELSE None

IsLeap(y) == (y % 4 = 0 /\ y % 100 # 0) \/ y % 400 = 0
DaysInMonth(y, m) ==
    IF m = 2 THEN (IF IsLeap(y) THEN 29 ELSE 28)
    ELSE IF m \in {4, 6, 9, 11} THEN 30 ELSE 31

\* _parse_date: <<year, month, day>>, or None where the code raises
\* ReportError('invalid_dates')
ParseDate(value) ==
    LET parts == Split(value, "-")
    IN IF Len(parts) < 3 THEN None
       ELSE IF \E i \in 1..Len(parts) : ParseInt(parts[i]) = None THEN None
       ELSE LET y == ParseInt(parts[1])[1]
                m == ParseInt(parts[2])[1]
                d == ParseInt(parts[3])[1]
            IN IF y \in 1..9999 /\ m \in 1..12 /\ d \in 1..DaysInMonth(y, m)
               THEN Some(<<y, m, d>>) ELSE None

\* start_obj > end_obj of two datetime.date
DateGreater(a, b) ==
    \/ a[1] > b[1]
    \/ a[1] = b[1] /\ a[2] > b[2]
    \/ a[1] = b[1] /\ a[2] = b[2] /\ a[3] > b[3]

\* a generator without the range check
RangeUnchecked(start_obj, end_obj) == FALSE

\* if start_obj > end_obj: raise ReportError('invalid_range')
InvalidRange(start_obj, end_obj) == DateGreater(start_obj, end_obj)

\* get_coverage: SELECT MIN(date), MAX(date) FROM daily_kl
GetCoverage(table) ==
    IF table = {} THEN None
    ELSE Some([min_date |-> CHOOSE d \in {r.date : r \in table} :
                                \A r \in table : StrLeq(d, r.date),
               max_date |-> CHOOSE d \in {r.date : r \in table} :
                                \A r \in table : StrLeq(r.date, d)])

\* the GROUP BY expression of _build_aggregate_query: date,
\* substr(date, 1, 7) or substr(date, 1, 4)
Period(granularity, date) ==
    IF granularity = "day" THEN date
    ELSE IF granularity = "month" THEN SubSeq(date, 1, Min(7, Len(date)))
    ELSE SubSeq(date, 1, Min(4, Len(date)))

\* WHERE station_id IN (...) AND date BETWEEN ? AND ?
Selected(table, ids, start_date, end_date) ==
    {r \in table : /\ r.station_id \in ids
                   /\ StrLeq(start_date, r.date) /\ StrLeq(r.date, end_date)}

RECURSIVE OrderedPeriods(_)
\* ORDER BY period
OrderedPeriods(set) ==
    IF set = {} THEN <<>>
    ELSE LET p == CHOOSE x \in set : \A y \in set : StrLeq(x, y)
         IN <<p>> \o OrderedPeriods(set \ {p})

\* the values an aggregate function sees: the rows whose column is not NULL
NonNull(rows, col) == {r \in rows : r[col] # None}

RECURSIVE SumOf(_, _)
\* the sum of a column (in tenths) over rows that all hold a value
SumOf(rows, col) ==
    IF rows = {} THEN 0
    ELSE LET r == CHOOSE x \in rows : TRUE
         IN r[col][1] + SumOf(rows \ {r}, col)

\* n / d to the nearest integer, ties to the even one
RoundDiv(n, d) ==
    LET q == n \div d
        r == n % d
    IN IF 2 * r < d THEN q
       ELSE IF 2 * r > d THEN q + 1
       ELSE IF q % 2 = 0 THEN q ELSE q + 1

\* _round_or_none(AVG(col)), in hundredths: the mean of the values that are
\* not NULL, None when there is none.  Up to three values in tenths have no
\* mean that lies halfway between two hundredths.
RoundedAvg(rows, col) ==
    IF NonNull(rows, col) = {} THEN None
    ELSE Some(RoundDiv(SumOf(NonNull(rows, col), col) * 10,
                       Cardinality(NonNull(rows, col))))

\* _round_or_none(MAX(col)), in hundredths
RoundedMax(rows, col) ==
    IF NonNull(rows, col) = {} THEN None
    ELSE Some(10 * (CHOOSE v \in {r[col][1] : r \in NonNull(rows, col)} :
                       \A r \in NonNull(rows, col) : r[col][1] <= v))

\* _round_or_none(MIN(col)), in hundredths
RoundedMin(rows, col) ==
    IF NonNull(rows, col) = {} THEN None
    ELSE Some(10 * (CHOOSE v \in {r[col][1] : r \in NonNull(rows, col)} :
                       \A r \in NonNull(rows, col) : v <= r[col][1]))

\* _round_or_none(SUM(col)), in hundredths
RoundedSum(rows, col) ==
    IF NonNull(rows, col) = {} THEN None
    ELSE Some(10 * SumOf(NonNull(rows, col), col))

\* one entry of periods for the rows of one group
PeriodEntry(period, rows) ==
    [period |-> period,
     temp_avg |-> RoundedAvg(rows, "tmk"),
     temp_max |-> RoundedMax(rows, "txk"),
     temp_min |-> RoundedMin(rows, "tnk"),
     precipitation |-> RoundedSum(rows, "rsk"),
     sunshine |-> RoundedSum(rows, "sdk"),
     sample_count |-> Cardinality(rows),
     distinct_days |-> Cardinality({r.date : r \in rows}),
     stations |-> <<>>]

\* the rows of the aggregate query as generate_report returns them
AggregateRows(table, ids, start_date, end_date, granularity) ==
    LET sel == Selected(table, ids, start_date, end_date)
        keys == OrderedPeriods({Period(granularity, r.date) : r \in sel})
        of(p) == {r \in sel : Period(granularity, r.date) = p}
    IN [i \in 1..Len(keys) |-> PeriodEntry(keys[i], of(keys[i]))]

\* the value test of the breakdown query (has_value_case)
HasValue(r) ==
    \E col \in {"tmk", "txk", "tnk", "rsk", "sdk"} : r[col] # None

\* _station_period_breakdown, the entry of one period: the ids of the
\* stations whose group of that period holds a value
\* (HAVING SUM(has_value_case) > 0), in the order of their distance, which
\* is the order of the station search
StationPeriodBreakdown(table, found, start_date, end_date, granularity, period) ==
    LET ids == {found[i].station_id : i \in 1..Len(found)}
        sel == {r \in Selected(table, ids, start_date, end_date) :
                   Period(granularity, r.date) = period}
    IN SelectSeq([i \in 1..Len(found) |-> found[i].station_id],
                 LAMBDA id : \E r \in sel : r.station_id = id /\ HasValue(r))

\* a report that marks no station
NoStationUsed(periods) == {}

\* used_station_ids: the ids of the station details of the returned periods
UsedStationIds(periods) ==
    UNION {{periods[i].stations[k] : k \in 1..Len(periods[i].stations)} :
              i \in 1..Len(periods)}

Failure(code, queries) ==
    [code |-> code, queries |-> queries, stations |-> <<>>, periods |-> <<>>,
     used_station_ids |-> {}]

\* generate_report up to the station search: the code of the ReportError
\* raised, "none" when none is
Validate(coverage, start_date, end_date) ==
    LET start_obj == ParseDate(start_date)
        end_obj == ParseDate(end_date)
    IN IF coverage = None THEN "no_data"
       ELSE IF start_obj = None \/ end_obj = None THEN "invalid_dates"
       ELSE IF InvalidRange(start_obj[1], end_obj[1]) THEN "invalid_range"
       ELSE IF \/ StrLess(start_date, coverage[1].min_date)
               \/ StrLess(coverage[1].max_date, end_date)
       THEN "out_of_bounds"
       ELSE "none"

\* generate_report, given the payload the station search returns
GenerateReportResult(table, stored, found, lat, lon, radius, start_date, end_date, granularity) ==
    LET invalid == Validate(GetCoverage(table), start_date, end_date)
        q2 == <<"coverage">> \o GeoQueries(stored, lat, lon, radius)
        ids == {found[i].station_id : i \in 1..Len(found)}
        rows == AggregateRows(table, ids, start_date, end_date, granularity)
        periods == [i \in 1..Len(rows) |->
                      [rows[i] EXCEPT !.stations =
                          StationPeriodBreakdown(table, found, start_date,
                              end_date, granularity, rows[i].period)]]
        used == UsedStationIds(periods)
    IN IF invalid # "none" THEN Failure(invalid, <<"coverage">>)
       ELSE IF found = <<>> THEN Failure("no_stations", q2)
       ELSE IF granularity \notin {"day", "month", "year"}
       THEN Failure("invalid_granularity", q2)
       ELSE IF rows = <<>> THEN Failure("no_data", q2 \o <<"aggregate">>)
       ELSE [code |-> "ok", queries |-> q2 \o <<"aggregate", "breakdown">>,
             stations |-> [i \in 1..Len(found) |->
                             [station_id |-> found[i].station_id,
                              distance_km |-> found[i].distance_km,
                              has_data |-> found[i].station_id \in used]],
             periods |-> periods, used_station_ids |-> used]

ReportInit == rep = None

\* a batch write of the import commits the next row of DayTable
StoreDay(i) ==
    /\ i = Cardinality(daily_kl) + 1
    /\ daily_kl' = UpsertRow(daily_kl, DayTable[i])
    /\ geo' = None
    /\ rep' = None
    /\ UNCHANGED stations
    /\ UNCHANGED <<jobVars, impLocals, lockVars, runVars, wrVars>>

\* generate_report(conn, lat, lon, radius, start_date, end_date, granularity)
GenerateReport(radius, start_date, end_date, granularity) ==
    /\ \E found \in
            (IF Validate(GetCoverage(daily_kl), start_date, end_date) # "none"
             THEN {<<>>}
             ELSE StationsWithinRadiusPayloads(stations, ReportPoint.lat,
                        ReportPoint.lon, radius, DefaultLimit)) :
          rep' = Some([start_date |-> start_date, end_date |-> end_date,
                       radius |-> radius, granularity |-> granularity,
                       coverage |-> GetCoverage(daily_kl),
                       result |-> GenerateReportResult(daily_kl, stations,
                                     found, ReportPoint.lat, ReportPoint.lon,
                                     radius, start_date, end_date,
                                     granularity)])
    /\ UNCHANGED <<stations, geo, daily_kl>>
    /\ UNCHANGED <<jobVars, impLocals, lockVars, runVars, wrVars>>

ReportNext ==
    \/ \E ids \in ReportBatches : PersistStationBatch(ids)
    \/ \E i \in 1..NumDays : StoreDay(i)
    \/ \E radius \in ReportRadiiM, start_date \in DateInputs,
          end_date \in DateInputs, granularity \in Granularities :
          GenerateReport(radius, start_date, end_date, granularity)

(***************************************************************************)
(*                      JobState.update and to_dict                        *)
(***************************************************************************)

\* the attributes to_dict copies that ever change, in the order it reads them
DictFields ==
    <<"status", "progress", "message", "stage", "detail", "result", "error",
      "finished_at">>

\* the keyword arguments of the four job.update calls, in call order
RunningOrder == <<"status", "message", "progress", "stage", "detail">>
ProgressOrder == <<"progress", "message", "stage", "detail">>
CompletedOrder == <<"status", "progress", "message", "result", "finished_at">>
FailedOrder == <<"status", "error", "message", "finished_at">>

\* changes.items()
Items(changes, order) ==
    [i \in 1..Len(order) |-> <<order[i], changes[order[i]]>>]

\* the progress_handler call for one event of the import
ProgressItems(j, ev) ==
    Items(ProgressChanges(j, ev[1], ev[2], ev[3]), ProgressOrder)

\* the job.update call _run_job makes next when a station refresh is at
\* position at (ok: _import_stations returns), and the position after it
NextUpdate(at, ok, j) ==
    CASE at = "start" ->
           [items |-> Items(RunningChanges, RunningOrder), next |-> "prepare"]
      [] at = "prepare" ->
           [items |-> ProgressItems(j, PrepareEvent("stations")),
            next |-> "stations"]
      [] at = "stations" /\ ok ->
           [items |-> ProgressItems(j, CompleteEvent("stations", 0, 0)),
            next |-> "returned"]
      [] at = "stations" /\ ~ok ->
           [items |-> Items(FailedChanges("exc"), FailedOrder),
            next |-> "done"]
      [] at = "returned" ->
           [items |-> Items(CompletedChanges(j, "report"), CompletedOrder),
            next |-> "done"]

\* a JobState whose methods take no lock
LockNeverHeld(u, readers) == FALSE

\* self._lock is held: some thread is inside "with self._lock"
LockHeld(u, readers) ==
    u.pc = "in" \/ \E r \in Readers : readers[r].pc = "in"

\* a to_dict call that has copied nothing yet
NoCopy == [k \in {DictFields[i] : i \in 1..Len(DictFields)} |-> "unread"]

LockInit ==
    /\ job = NewJobState("stations")
    /\ upd = [pc |-> "idle", at |-> "start", todo |-> <<>>, next |-> "start"]
    /\ rd = [r \in Readers |-> [pc |-> "idle", n |-> 0, got |-> NoCopy]]
    /\ versions = {NewJobState("stations")}

\* JobState.update: with self._lock
UpdateAcquire(ok) ==
    /\ upd.pc = "idle" /\ upd.at # "done"
    /\ ~LockHeld(upd, rd)
    /\ upd' = [upd EXCEPT !.pc = "in",
                          !.todo = NextUpdate(upd.at, ok, job).items,
                          !.next = NextUpdate(upd.at, ok, job).next]
    /\ UNCHANGED <<job, rd, versions>>
    /\ UNCHANGED <<jobVars, impVars, qryVars, runVars, wrVars>>

\* JobState.update: setattr(self, key, value) for the next item
UpdateSetattr ==
    /\ upd.pc = "in" /\ upd.todo # <<>>
    /\ job' = [job EXCEPT ![Head(upd.todo)[1]] = Head(upd.todo)[2]]
    /\ upd' = [upd EXCEPT !.todo = Tail(upd.todo)]
    /\ UNCHANGED <<rd, versions>>
    /\ UNCHANGED <<jobVars, impVars, qryVars, runVars, wrVars>>

\* JobState.update: the loop is over, the lock released
UpdateRelease ==
    /\ upd.pc = "in" /\ upd.todo = <<>>
    /\ upd' = [upd EXCEPT !.pc = "idle", !.at = upd.next]
    /\ versions' = versions \cup {job}
    /\ UNCHANGED <<job, rd>>
    /\ UNCHANGED <<jobVars, impVars, qryVars, runVars, wrVars>>

\* JobState.to_dict: with self._lock
ToDictAcquire(r) ==
    /\ rd[r].pc = "idle"
    /\ ~LockHeld(upd, rd)
    /\ rd' = [rd EXCEPT ![r] = [pc |-> "in", n |-> 0, got |-> NoCopy]]
    /\ UNCHANGED <<job, upd, versions>>
    /\ UNCHANGED <<jobVars, impVars, qryVars, runVars, wrVars>>

\* JobState.to_dict: the next entry of the dict display is evaluated
ToDictRead(r) ==
    /\ rd[r].pc = "in" /\ rd[r].n < Len(DictFields)
    /\ rd' = [rd EXCEPT ![r].n = @ + 1,
                        ![r].got[DictFields[rd[r].n + 1]] =
                            job[DictFields[rd[r].n + 1]]]
    /\ UNCHANGED <<job, upd, versions>>
    /\ UNCHANGED <<jobVars, impVars, qryVars, runVars, wrVars>>

\* JobState.to_dict: return, the lock released
ToDictRelease(r) ==
    /\ rd[r].pc = "in" /\ rd[r].n = Len(DictFields)
    /\ rd' = [rd EXCEPT ![r].pc = "idle"]
    /\ UNCHANGED <<job, upd, versions>>
    /\ UNCHANGED <<jobVars, impVars, qryVars, runVars, wrVars>>

LockNext ==
    \/ \E ok \in BOOLEAN : UpdateAcquire(ok)
    \/ UpdateSetattr
    \/ UpdateRelease
    \/ \E r \in Readers : ToDictAcquire(r)
    \/ \E r \in Readers : ToDictRead(r)
    \/ \E r \in Readers : ToDictRelease(r)

(***************************************************************************)
(*            _executemany_with_retry (importers/dwd/core.py)              *)
(***************************************************************************)
\* SQLITE_LOCK_SLEEP, in seconds
SQLITE_LOCK_SLEEP == 1

\* what conn.executemany can raise: the class, and the words of str(exc)
LockedError ==
    [cls |-> "OperationalError", message |-> <<"database", "is", "locked">>]
TableLockedError ==
    [cls |-> "OperationalError",
     message |-> <<"database", "table", "is", "locked">>]
DiskError ==
    [cls |-> "OperationalError", message |-> <<"disk", "I/O", "error">>]
NotNullError ==
    [cls |-> "IntegrityError",
     message |-> <<"NOT", "NULL", "constraint", "failed:", "daily_kl.date">>]
OperationalErrors == {LockedError, TableLockedError, DiskError}

\* str(exc).lower()
Lower(message) ==
    [i \in 1..Len(message) |->
        CASE message[i] = "NOT" -> "not" [] message[i] = "NULL" -> "null"
          [] message[i] = "I/O" -> "i/o" [] OTHER -> message[i]]

\* a loop that retries whatever the statement raised
RetriesAnyError(exc, n) == n < SQLITE_LOCK_RETRIES

\* except sqlite3.OperationalError as exc:
\*     if 'locked' in message and attempts < SQLITE_LOCK_RETRIES
Retries(exc, n) ==
    /\ exc.cls = "OperationalError"
    /\ \E i \in 1..Len(exc.message) : Lower(exc.message)[i] = "locked"
    /\ n < SQLITE_LOCK_RETRIES

\* the daily records a batch can hold: those of RawRecords that are kept
RetryRecords ==
    {NormalizeDailyRecord(raw, 1).rec[1] :
        raw \in {x \in RawRecords : /\ ~NormalizeDailyRecord(x, 1).raised
                                     /\ NormalizeDailyRecord(x, 1).rec # None}}

\* params_list: one record, or two with different keys
ParamsLists ==
    {<<a>> : a \in RetryRecords}
    \cup {p \in {<<a, b>> : a \in RetryRecords, b \in RetryRecords} :
             KeyOf(p[1]) # KeyOf(p[2])}

NoCall ==
    [pc |-> "idle", attempts |-> 0, params_list |-> <<>>, errors |-> <<>>,
     sleeps |-> <<>>, executions |-> 0]

RetryInit == retry = NoCall

\* _executemany_with_retry(conn, sql, params, label): attempts = 0
ExecutemanyWithRetry(params) ==
    /\ retry.pc \in {"idle", "returned", "raised"}
    /\ retry' = [NoCall EXCEPT !.pc = "execute", !.params_list = params]
    /\ UNCHANGED refresh
    /\ UNCHANGED <<jobVars, impVars, qryVars, lockVars, wrVars>>

\* with conn: conn.executemany(sql, params_list) commits; return
ExecuteCommits ==
    /\ retry.pc = "execute"
    /\ ~ViolatesNotNull(retry.params_list)
    /\ daily_kl' = ExecuteMany(daily_kl, retry.params_list)
    /\ retry' = [retry EXCEPT !.pc = "returned", !.executions = @ + 1]
    /\ geo' = None
    /\ rep' = None
    /\ UNCHANGED <<stations, refresh>>
    /\ UNCHANGED <<jobVars, impLocals, lockVars, wrVars>>

\* the statement raises and the transaction is rolled back: the handler
\* sleeps SQLITE_LOCK_SLEEP * attempts and goes round again, or re-raises;
\* an IntegrityError is not caught
ExecuteRaises(exc) ==
    /\ retry.pc = "execute"
    /\ exc = NotNullError => ViolatesNotNull(retry.params_list)
    /\ IF Retries(exc, retry.attempts)
       THEN retry' = [retry EXCEPT
                         !.attempts = @ + 1,
                         !.sleeps = Append(@, SQLITE_LOCK_SLEEP
                                                * (retry.attempts + 1)),
                         !.errors = Append(@, exc),
                         !.executions = @ + 1]
       ELSE retry' = [retry EXCEPT !.pc = "raised",
                                   !.errors = Append(@, exc),
                                   !.executions = @ + 1]
    /\ UNCHANGED refresh
    /\ UNCHANGED <<jobVars, impVars, qryVars, lockVars, wrVars>>

Execute ==
    \/ ExecuteCommits
    \/ \E exc \in OperationalErrors \cup {NotNullError} : ExecuteRaises(exc)

RetryNext ==
    \/ \E params \in ParamsLists : ExecutemanyWithRetry(params)
    \/ ExecuteCommits
    \/ \E exc \in OperationalErrors \cup {NotNullError} : ExecuteRaises(exc)

(***************************************************************************)
(*     run_full_refresh and run_station_refresh (importers/dwd)            *)
(***************************************************************************)
\* names of the publisher's directory listing, as the parts the importer
\* tells them by: <<stem, ending>> or <<stem, station, ending>>
STATION_DESCRIPTION_FILE == <<"KL_Tageswerte_Beschreibung_Stationen", ".txt">>
ARCHIVE_SUFFIX == "_hist.zip"
HistName(i) == <<"tageswerte_KL", i, ARCHIVE_SUFFIX>>
RecentName == <<"tageswerte_KL", 1, "_akt.zip">>
ListingNames ==
    {STATION_DESCRIPTION_FILE, RecentName}
    \cup {HistName(i) : i \in 1..MaxArchives}

\* name.endswith(suffix)
EndsWith(name, suffix) == name[Len(name)] = suffix

RECURSIVE SortedNames(_)
\* archives.sort(key=lambda item: item[0]), of names that end alike
SortedNames(names) ==
    IF names = {} THEN <<>>
    ELSE LET first == CHOOSE x \in names : \A y \in names : x[2] <= y[2]
         IN <<first>> \o SortedNames(names \ {first})

\* archives = [... for name, meta in listing.items()
\*             if name.endswith(ARCHIVE_SUFFIX)], sorted
Archives(listing) ==
    SortedNames({name \in listing : EndsWith(name, ARCHIVE_SUFFIX)})

\* the rows of the description file (indices of StationTable) at two times
DescriptionFiles == {{1, 2}, {2, 3}}

\* INSERT ... ON CONFLICT(station_id) DO UPDATE for the rows ids
UpsertStations(table, ids) ==
    {s \in table : \A i \in ids : s.station_id # StationTable[i].station_id}
    \cup {StationTable[i] : i \in ids}

\* ensure_weather_schema(reset=reset): DROP TABLE IF EXISTS before CREATE
\* TABLE IF NOT EXISTS when reset is set
EnsureWeatherSchema(table, reset) == IF reset THEN {} ELSE table

NoRun ==
    [pc |-> "idle", kind |-> "none", reset |-> FALSE, before |-> {},
     stage |-> "none", entry |-> FALSE, downloaded |-> FALSE,
     fetched |-> FALSE, listing |-> {}, archives |-> <<>>, index |-> 0,
     processed |-> 0, failed |-> 0, downloads |-> 0, written |-> 0]

RefreshInit == refresh = NoRun

\* run_full_refresh / run_station_refresh up to _import_stations:
\* self._ensure_schema().  DwdImporterCore._ensure_schema passes reset=False
\* on; _ensure_schema of weather_analytics/dwd_kl_importer.py passes
\* reset=True.
RunRefresh(kind, reset) ==
    /\ refresh.pc \in {"idle", "returned", "raised"}
    /\ stations' = EnsureWeatherSchema(stations, reset)
    /\ daily_kl' = EnsureWeatherSchema(daily_kl, reset)
    /\ refresh' = [NoRun EXCEPT !.pc = "stations", !.kind = kind,
                                !.reset = reset, !.stage = "stations",
                                !.before = {s.station_id : s \in stations}]
    /\ geo' = None
    /\ rep' = None
    /\ UNCHANGED retry
    /\ UNCHANGED <<jobVars, impLocals, lockVars, wrVars>>

\* a run that takes up the archives whatever became of the stations
ImportStationsUnchecked(listing, ok, ids) ==
    /\ refresh.pc = "stations"
    /\ refresh' = [refresh EXCEPT
                      !.entry = STATION_DESCRIPTION_FILE \in listing,
                      !.downloaded = ok,
                      !.pc = IF refresh.kind = "stations" THEN "returned"
                             ELSE "daily",
                      !.stage = IF refresh.kind = "stations" THEN "stations"
                                ELSE "daily"]
    /\ UNCHANGED <<stations, geo, rep, daily_kl, retry>>
    /\ UNCHANGED <<jobVars, impLocals, lockVars, wrVars>>

\* _import_stations: the listing is fetched; without the description entry
\* RuntimeError; the download raises or gives the file, whose rows are
\* upserted.  A station refresh returns then, a full refresh goes on.
ImportStations(listing, ok, ids) ==
    /\ refresh.pc = "stations"
    /\ IF STATION_DESCRIPTION_FILE \notin listing \/ ~ok
       THEN /\ refresh' = [refresh EXCEPT
                              !.entry = STATION_DESCRIPTION_FILE \in listing,
                              !.downloaded = ok,
                              !.pc = "raised"]
            /\ UNCHANGED <<stations, geo, rep>>
       ELSE /\ stations' = UpsertStations(stations, ids)
            /\ geo' = None
            /\ rep' = None
            /\ refresh' = [refresh EXCEPT
                              !.entry = TRUE,
                              !.downloaded = TRUE,
                              !.pc = IF refresh.kind = "stations"
                                     THEN "returned" ELSE "daily",
                              !.stage = IF refresh.kind = "stations"
                                        THEN "stations" ELSE "daily"]
    /\ UNCHANGED <<daily_kl, retry>>
    /\ UNCHANGED <<jobVars, impLocals, lockVars, wrVars>>

\* _import_daily_archives up to the loop: the listing is fetched and
\* filtered; RuntimeError when no archive is left
FetchArchiveListing(listing) ==
    /\ refresh.pc = "daily"
    /\ refresh' = [refresh EXCEPT
                      !.fetched = TRUE,
                      !.listing = listing,
                      !.archives = Archives(listing),
                      !.index = 1,
                      !.pc = IF Archives(listing) = <<>> THEN "raised"
                             ELSE "archive"]
    /\ UNCHANGED <<stations, geo, rep, daily_kl, retry>>
    /\ UNCHANGED <<jobVars, impLocals, lockVars, wrVars>>

\* a loop without the except clause: a failing archive ends the run
ImportOneArchiveUnhandled(ok) ==
    /\ refresh.pc = "archive"
    /\ refresh' = [refresh EXCEPT
                      !.downloads = @ + 1,
                      !.processed = IF ok THEN @ + 1 ELSE @,
                      !.failed = IF ok THEN @ ELSE @ + 1,
                      !.index = @ + 1,
                      !.pc = IF ~ok THEN "raised"
                             ELSE IF refresh.index = Len(refresh.archives)
                             THEN "returned" ELSE "archive"]
    /\ UNCHANGED <<stations, geo, rep, daily_kl, retry>>
    /\ UNCHANGED <<jobVars, impLocals, lockVars, wrVars>>

\* one iteration of the archive loop: the archive is downloaded and its
\* row written, or something raises and the handler counts the failure;
\* after the last archive the run returns
ImportOneArchive(ok) ==
    /\ refresh.pc = "archive"
    /\ refresh' = [refresh EXCEPT
                      !.downloads = @ + 1,
                      !.processed = IF ok THEN @ + 1 ELSE @,
                      !.failed = IF ok THEN @ ELSE @ + 1,
                      !.written = IF ok THEN @ + 1 ELSE @,
                      !.index = @ + 1,
                      !.pc = IF refresh.index = Len(refresh.archives)
                             THEN "returned" ELSE "archive"]
    /\ IF ok
       THEN /\ daily_kl' = UpsertRow(daily_kl,
                               DayTable[refresh.archives[refresh.index][2]])
            /\ geo' = None
            /\ rep' = None
       ELSE UNCHANGED <<daily_kl, geo, rep>>
    /\ UNCHANGED <<stations, retry>>
    /\ UNCHANGED <<jobVars, impLocals, lockVars, wrVars>>

\* the steps of the daily stage
DailyStage ==
    \/ \E listing \in SUBSET ListingNames : FetchArchiveListing(listing)
    \/ \E ok \in BOOLEAN : ImportOneArchive(ok)

RefreshNext ==
    \/ \E kind \in JobKinds, reset \in BOOLEAN : RunRefresh(kind, reset)
    \/ \E listing \in SUBSET ListingNames, ok \in BOOLEAN,
          ids \in DescriptionFiles : ImportStations(listing, ok, ids)
    \/ \E listing \in SUBSET ListingNames : FetchArchiveListing(listing)
    \/ \E ok \in BOOLEAN : ImportOneArchive(ok)

(***************************************************************************)
(*      _persist_daily_batch and _persist_station_batch, one caller        *)
(***************************************************************************)
\* the batches of the station import: rows of the description file by
\* their place in StationTable, in file order; a file may name a station
\* twice.  _import_stations never passes an empty batch on, the writer
\* accepts one.
StationBatches ==
    {<<>>} \cup {<<i>> : i \in 1..NumStations}
    \cup {<<i, j>> : i \in 1..NumStations, j \in 1..NumStations}

NoBatch ==
    [table |-> "none", size |-> 0, keys |-> {}, before |-> {},
     raised |-> FALSE, inserted |-> 0, updated |-> 0]

BatchInit == call = NoBatch

\* _fetch_existing_station_ids
FetchExistingStationIds(table, station_ids) ==
    {s.station_id : s \in {x \in table :
        \E i \in 1..Len(station_ids) : x.station_id = station_ids[i]}}

\* _persist_station_batch(conn, records, timestamp), the statement commits
PersistStationBatchReturns(records) ==
    /\ LET station_ids == [i \in 1..Len(records) |->
                              StationTable[records[i]].station_id]
           existing == IF records = <<>> THEN {}
                       ELSE FetchExistingStationIds(stations, station_ids)
       IN call' = [table |-> "stations", size |-> Len(records),
                   keys |-> {station_ids[i] : i \in 1..Len(records)},
                   before |-> {s.station_id : s \in stations},
                   raised |-> FALSE,
                   inserted |-> Len(records) - Cardinality(existing),
                   updated |-> Cardinality(existing)]
    /\ stations' = UpsertStations(stations,
                                  {records[i] : i \in 1..Len(records)})
    /\ geo' = None
    /\ rep' = None
    /\ UNCHANGED conns
    /\ UNCHANGED <<jobVars, impVars, lockVars, runVars>>

\* _persist_daily_batch(conn, records), the statement commits
PersistDailyBatchReturns(records) ==
    /\ ~ViolatesNotNull(records)
    /\ LET existing == IF records = <<>> THEN {}
                       ELSE FetchExistingDailyPairs(daily_kl, records)
       IN call' = [table |-> "daily_kl", size |-> Len(records),
                   keys |-> {RowKey(RowOf(records[i])) : i \in 1..Len(records)},
                   before |-> {RowKey(r) : r \in daily_kl},
                   raised |-> FALSE,
                   inserted |-> Len(records) - Cardinality(existing),
                   updated |-> Cardinality(existing)]
    /\ daily_kl' = ExecuteMany(daily_kl, records)
    /\ geo' = None
    /\ rep' = None
    /\ UNCHANGED <<stations, conns>>
    /\ UNCHANGED <<jobVars, impLocals, lockVars, runVars>>

\* _persist_daily_batch(conn, records): _executemany_with_retry raises,
\* nothing is returned
PersistDailyBatchRaises(records) ==
    /\ records # <<>>
    /\ call' = [NoBatch EXCEPT !.table = "daily_kl", !.size = Len(records),
                               !.raised = TRUE]
    /\ UNCHANGED conns
    /\ UNCHANGED <<jobVars, impVars, qryVars, lockVars, runVars>>

BatchNext ==
    \/ \E records \in StationBatches : PersistStationBatchReturns(records)
    \/ \E records \in ParamsLists \cup {<<>>} : PersistDailyBatchReturns(records)
    \/ \E records \in ParamsLists : PersistDailyBatchRaises(records)

(***************************************************************************)
(*   two import workers write to daily_kl, each through its own connection *)
(***************************************************************************)
\* run_full_refresh enters its own application context, so every worker
\* thread has the connection get_db opens for it.  SQLite gives the write
\* lock of the database file to one connection at a time: from the first
\* row of a statement to the end of its transaction.
ImportWorkers == {1, 2}

\* the rows of the archives of the two workers
WriterRows ==
    << Payload(Some(<<"7">>), Some(<<"2", "0", "2", "2", "0", "7", "1", "5">>), Some(<<"2", "0", ".", "5">>), Some(<<"5", ".", "0">>)),
       Payload(Some(<<" ", "0", "7">>), Some(<<"2", "0", "2", "2", "-", "0", "7", "-", "1", "5">>), Some(SENT_999), Some(<<"1", ",", "5">>)),
       Payload(Some(<<"8">>), Some(<<"2", "0", "2", "2", "0", "7", "1", "6">>), Some(<<"1", "8", ".", "0">>), Some(<<>>)),
       Payload(Some(<<"7">>), Some(SENT_999), Some(<<"2", "0", ".", "5">>), Some(<<"5", ".", "0">>)) >>

\* the archives a worker can import, as the rows of their data file
WriterArchives == {<<1, 3, 2>>, <<2, 1, 3>>, <<1, 4>>, <<3, 2, 4>>}

\* the records _parse_and_store_daily keeps of an archive, in file order
ArchiveRecords(a, filename) ==
    [j \in 1..Len(a) |->
        NormalizeDailyRecord(WriterRows[a[j]], filename).rec[1]]

RECURSIVE FillBatch(_, _)
\* the loop of _parse_and_store_daily up to its next flush: the buffer it
\* hands to the writer and the records it has not read yet
FillBatch(b, recs) ==
    IF recs = <<>> \/ Len(b) >= CHUNK_SIZE THEN [batch |-> b, rest |-> recs]
    ELSE FillBatch(BatchPut(b, Head(recs)), Tail(recs))

RECURSIVE Chunks(_)
\* the batches _parse_and_store_daily hands to the writer, in order
Chunks(recs) ==
    IF recs = <<>> THEN <<>>
    ELSE <<FillBatch(<<>>, recs).batch>> \o Chunks(FillBatch(<<>>, recs).rest)

\* a worker that has not started
IdleConn ==
    [pc |-> "idle", records |-> <<>>, batch |-> <<>>, rest |-> <<>>,
     done |-> 0, i |-> 0, tx |-> None, attempts |-> 0, undone |-> 0]

\* _get_connection, and the first batch of the archive
NewConn(recs) ==
    [IdleConn EXCEPT !.pc = "execute", !.records = recs,
                     !.batch = FillBatch(<<>>, recs).batch,
                     !.rest = FillBatch(<<>>, recs).rest]

WriterInit == conns = [workers |-> [w \in ImportWorkers |-> IdleConn],
                       log |-> <<>>]

\* another connection holds the write lock
OtherWrites(w) ==
    \E v \in ImportWorkers \ {w} : conns.workers[v].tx # None

\* a connection whose rollback leaves the rows of the statement in the table
RollbackKeepsRows(table, tx) == IF tx = None THEN table ELSE tx[1]

\* with conn: an exception leaves the block and the transaction is rolled
\* back: the table is what was committed
Rollback(table, tx) == table

\* the handler of _executemany_with_retry for an exception of the
\* statement, after i rows: another attempt from the first row, or raise
StatementRaises(c, exc) ==
    IF Retries(exc, c.attempts)
    THEN [c EXCEPT !.attempts = @ + 1, !.i = 0, !.tx = None]
    ELSE [c EXCEPT !.pc = "raised", !.tx = None, !.undone = c.i]

\* a worker starts the import of an archive
StartImport(w, a) ==
    /\ conns.workers[w].pc = "idle"
    /\ conns' = [conns EXCEPT !.workers[w] = NewConn(ArchiveRecords(a, w))]
    /\ UNCHANGED call
    /\ UNCHANGED <<jobVars, impVars, qryVars, lockVars, runVars>>

\* conn.executemany, one parameter tuple: the upsert of the row in the
\* transaction of the connection, which the first row opens, or the
\* IntegrityError of a row without date
ExecuteRow(w) ==
    LET c == conns.workers[w]
        view == IF c.tx = None THEN daily_kl ELSE c.tx[1]
    IN /\ c.pc = "execute"
       /\ ~OtherWrites(w)
       /\ c.i < Len(c.batch)
       /\ IF c.batch[c.i + 1].date = None
          THEN /\ conns' = [conns EXCEPT !.workers[w] =
                                StatementRaises(c, NotNullError)]
               /\ daily_kl' = Rollback(daily_kl, c.tx)
          ELSE /\ conns' = [conns EXCEPT !.workers[w] =
                                [c EXCEPT !.i = @ + 1,
                                          !.tx = Some(UpsertRow(view,
                                                   RowOf(c.batch[c.i + 1])))]]
               /\ UNCHANGED daily_kl
       /\ UNCHANGED call
       /\ UNCHANGED <<jobVars, impLocals, qryVars, lockVars, runVars>>

\* the with block ends and the transaction commits; _persist_daily_batch
\* returns and _parse_and_store_daily fills the next batch, or returns
Commit(w) ==
    LET c == conns.workers[w]
    IN /\ c.pc = "execute"
       /\ c.tx # None
       /\ c.i = Len(c.batch)
       /\ daily_kl' = c.tx[1]
       /\ conns' = [conns EXCEPT
             !.log = Append(@, [worker |-> w, batch |-> c.batch]),
             !.workers[w] =
                 [c EXCEPT !.pc = IF c.rest = <<>> THEN "done" ELSE "execute",
                           !.batch = FillBatch(<<>>, c.rest).batch,
                           !.rest = FillBatch(<<>>, c.rest).rest,
                           !.done = @ + 1, !.i = 0, !.tx = None,
                           !.attempts = 0]]
       /\ UNCHANGED call
       /\ UNCHANGED <<jobVars, impLocals, qryVars, lockVars, runVars>>

\* the commit meets a reader of the database: OperationalError 'database is
\* locked' after every row of the statement
CommitLocked(w) ==
    LET c == conns.workers[w]
    IN /\ c.pc = "execute"
       /\ c.tx # None
       /\ c.i = Len(c.batch)
       /\ conns' = [conns EXCEPT !.workers[w] =
                        StatementRaises(c, LockedError)]
       /\ daily_kl' = Rollback(daily_kl, c.tx)
       /\ UNCHANGED call
       /\ UNCHANGED <<jobVars, impLocals, qryVars, lockVars, runVars>>

\* the first row of the statement finds the write lock with the other
\* connection until the busy timeout: OperationalError 'database is locked'
DatabaseLocked(w) ==
    LET c == conns.workers[w]
    IN /\ c.pc = "execute"
       /\ c.tx = None
       /\ OtherWrites(w)
       /\ conns' = [conns EXCEPT !.workers[w] =
                        StatementRaises(c, LockedError)]
       /\ daily_kl' = Rollback(daily_kl, c.tx)
       /\ UNCHANGED call
       /\ UNCHANGED <<jobVars, impLocals, qryVars, lockVars, runVars>>

WriterNext ==
    \/ \E w \in ImportWorkers, a \in WriterArchives : StartImport(w, a)
    \/ \E w \in ImportWorkers : ExecuteRow(w)
    \/ \E w \in ImportWorkers : Commit(w)
    \/ \E w \in ImportWorkers : CommitLocked(w)
    \/ \E w \in ImportWorkers : DatabaseLocked(w)

(***************************************************************************)
(*                             Specifications                              *)
(***************************************************************************)
\* the registry is empty and no import has run
Init ==
    JobInit /\ ImportInit /\ GeoInit /\ ReportInit /\ LockInit /\ RetryInit
    /\ RefreshInit /\ BatchInit /\ WriterInit

JobSpec == Init /\ [][JobNext]_vars
\* the worker thread is scheduled as long as it has a step to take
JobFairSpec == JobSpec /\ WF_vars(Worker)

ImportSpec == Init /\ [][ImportNext]_vars

GeoSpec == Init /\ [][GeoNext]_vars

ReportSpec == Init /\ [][ReportNext]_vars
LockSpec == Init /\ [][LockNext]_vars
\* _run_job with a work function that reports what it likes
RunJobSpec == Init /\ [][RunJobNext]_vars
\* the statement of a batch write ends, one way or the other (the busy
\* timeout bounds the wait for a lock)
RetrySpec == Init /\ [][RetryNext]_vars /\ WF_vars(Execute)
\* a run under way is not abandoned in its daily stage
RefreshSpec == Init /\ [][RefreshNext]_vars /\ WF_vars(DailyStage)

\* one import run over the rows that are kept
ChunkSpec == Init /\ [][ChunkNext]_vars

\* a single caller of the batch writers
BatchSpec == Init /\ [][BatchNext]_vars

\* two import workers against one database file
WriterSpec == Init /\ [][WriterNext]_vars

(***************************************************************************)
(*                      Properties of the job registry                     *)
(***************************************************************************)
Terminal == {"completed", "failed"}
HasJob == JobId \in DOMAIN jobs
JobStatus == IF HasJob THEN jobs[JobId].status ELSE "none"

\* C1: the progress percentage a reader sees in successive status snapshots
\* of a job running an import never decreases.
C1_ProgressNeverDecreases ==
    [][\A r \in Readers :
          (snap[r] # <<>> /\ snap'[r] # <<>>)
              => snap'[r][1].progress >= snap[r][1].progress]_vars

\* C2: once the worker has returned or thrown, the job is completed or
\* failed, in the job itself and in every snapshot taken from then on; and a
\* work function that returned or raised leads to a terminal status.
C2_NeverLeftRunning ==
    /\ [](wpc = "done" => JobStatus \in Terminal)
    /\ [][\A r \in Readers :
            (wpc = "done" /\ snap'[r] # snap[r])
                => snap'[r][1].status \in Terminal]_vars
    /\ ((ipc \in {"returned", "raised"}) ~> (JobStatus \in Terminal))

\* the work function raised, the worker has ended, a reader has seen "failed"
C2_Witness ==
    /\ wpc = "done" /\ ipc = "raised"
    /\ jobs[JobId].status = "failed"
    /\ \E r \in Readers : snap[r] # <<>> /\ snap[r][1].status = "failed"

StatusSteps ==
    {<<"pending", "running">>, <<"running", "completed">>,
     <<"running", "failed">>}
\* what a reader that polls can see between two snapshots: the steps above
\* and their compositions
StatusOrder ==
    StatusSteps \cup {<<"pending", "completed">>, <<"pending", "failed">>}

\* C3 as stated: neither the job's status nor a reader's successive status
\* snapshots ever show another transition than pending -> running,
\* running -> completed, running -> failed.
C3_SnapshotsShowOnlySteps ==
    [][/\ (HasJob /\ jobs'[JobId].status # jobs[JobId].status)
            => <<jobs[JobId].status, jobs'[JobId].status>> \in StatusSteps
       /\ \A r \in Readers :
            (snap[r] # <<>> /\ snap'[r][1].status # snap[r][1].status)
                => <<snap[r][1].status, snap'[r][1].status>> \in StatusSteps]_vars

\* C3 amended: the job's status changes only along pending -> running ->
\* completed | failed; a reader's successive snapshots follow that order,
\* never going back nor between completed and failed, but may miss a status
\* in between.
C3_StatusTransitions ==
    [][/\ (HasJob /\ jobs'[JobId].status # jobs[JobId].status)
            => <<jobs[JobId].status, jobs'[JobId].status>> \in StatusSteps
       /\ ~HasJob /\ HasJob' => jobs'[JobId].status = "pending"
       /\ \A r \in Readers :
            (snap[r] # <<>> /\ snap'[r][1].status # snap[r][1].status)
                => <<snap[r][1].status, snap'[r][1].status>> \in StatusOrder]_vars

\* a job that went through running to completed, both seen by one reader
C3_Witness ==
    /\ wpc = "done"
    /\ jobs[JobId].status = "completed"
    /\ \E r \in Readers : snap[r] # <<>> /\ snap[r][1].status = "running"

(***************************************************************************)
(*                    Properties of the daily import                       *)
(***************************************************************************)
RunEnded == pc \in {"returned", "raised"} /\ run \in {1, 2}
NoDuplicateKeys(table) ==
    \A r1, r2 \in table : RowKey(r1) = RowKey(r2) => r1 = r2
\* the step is the commit of a batch write
CommitStep == pc = "write" /\ pc' = "parse"
\* the step of the first run that reads a csv row, and the row it reads
RowStep == pc = "parse" /\ run = 1 /\ source' # source
RowRead == source'[idx].rows[Len(source'[idx].rows)]

\* C4: daily_kl never holds two rows with one (station_id, date); a batch
\* upsert leaves, for every record of the batch, a stored row equal to the
\* record in all measurement columns and in source_filename (nulls included),
\* and leaves the rows of other keys alone.
C4_UpsertOverwrites ==
    /\ [](NoDuplicateKeys(daily_kl))
    /\ [][CommitStep =>
            /\ \A i \in 1..Len(batch) : RowOf(batch[i]) \in daily_kl'
            /\ \A r \in daily_kl :
                 (\A i \in 1..Len(batch) : RowKey(r) # RowKey(RowOf(batch[i])))
                    => r \in daily_kl'
            /\ \A r \in daily_kl' :
                 r \in daily_kl \/ \E i \in 1..Len(batch) : r = RowOf(batch[i])]_vars

\* archive 2 has rewritten the only stored row, and set its tmk to null
C4_Witness ==
    /\ run = 1 /\ pc = "parse" /\ idx = 2
    /\ file_stats.updated = 1 /\ file_stats.inserted = 0
    /\ \E r \in daily_kl :
          daily_kl = {r} /\ r.source_filename = 2 /\ r.tmk = None /\ r.rsk # None

C6_FailuresAreIsolated ==
    /\ pc = "raised" => Len(source) = 0
    /\ \A i \in DOMAIN hist.attempted : hist.attempted[i] <= 1
    /\ pc = "returned" =>
          /\ \A i \in 1..Len(source) : hist.attempted[i] = 1
          /\ stats.archives_failed = Cardinality(hist.raised)
          /\ stats.archives_processed = Len(source) - Cardinality(hist.raised)
          /\ Len(stats.errors) = Cardinality(hist.raised)
          /\ {stats.errors[i] : i \in 1..Len(stats.errors)} = hist.raised

\* the first archive has no .txt member, the second one was imported
C6_Witness ==
    /\ pc = "returned" /\ Len(source) = 2
    /\ source[1].kind = "no_txt"
    /\ hist.raised = {1}
    /\ stats.archives_processed = 1 /\ stats.archives_failed = 1
    /\ daily_kl # {}

\* a station identifier that is not the decimal text of a positive integer
BadStationId(value) ==
    value = None
    \/ LET t == Strip(value[1])
       IN ~(/\ t # <<>>
            /\ \A i \in 1..Len(t) : t[i] \in DecDigit
            /\ DecValue(t) > 0)

\* the record is skipped and nothing else happens: the buffer, the table and
\* the statistics stay as they are and the parse goes on
SkippedAlone ==
    /\ pc' = "parse"
    /\ batch' = batch
    /\ daily_kl' = daily_kl
    /\ stats' = stats

\* C7: a daily record whose station identifier is non-numeric or no positive
\* integer is skipped on its own: it is not written, and the records buffered
\* with it stay in the batch to be persisted.
C7_BadStationIdSkipped ==
    [][(RowStep /\ BadStationId(RowRead.stations_id)) => SkippedAlone]_vars

\* a field that is missing, empty or a sentinel value
MalformedField(value) ==
    value = None \/ Strip(value[1]) = <<>> \/ Strip(value[1]) \in SENTINEL_VALUES

\* C8: a record whose station identifier or date is missing, empty or a
\* sentinel is dropped and is not fatal to the batch.
C8_MalformedRecordDropped ==
    [][(RowStep /\ (MalformedField(RowRead.stations_id)
                        \/ MalformedField(RowRead.mess_datum)))
            => SkippedAlone]_vars

(***************************************************************************)
(*                     Properties of the radius search                     *)
(***************************************************************************)
\* the stations with coordinates whose great-circle distance from the point
\* of search g is at most radius_m
WithinDistance(g, radius_m) ==
    {s \in Geocoded(g.stored) : Distance(s, g.lat, g.lon) <= radius_m}

ReturnedIds(g) == [i \in 1..Len(g.stations) |-> g.stations[i].station_id]

\* what C25 says of a search g that has stations within radius_m
WithinRadiusOrdered(g, radius_m) ==
    LET within == WithinDistance(g, radius_m)
        ids == ReturnedIds(g)
        st(i) == CHOOSE s \in g.stored : s.station_id = ids[i]
    IN within # {} =>
          /\ \A i \in 1..Len(ids) : \E s \in within : s.station_id = ids[i]
          /\ \A i, j \in 1..Len(ids) :
                i < j => Distance(st(i), g.lat, g.lon)
                            <= Distance(st(j), g.lat, g.lon)
          /\ \A i, j \in 1..Len(ids) : ids[i] = ids[j] => i = j
          /\ Len(ids) <= g.limit
          /\ Cardinality(within) <= g.limit
                => {ids[i] : i \in 1..Len(ids)} = {s.station_id : s \in within}
          /\ Len(ids) = Min(g.limit, Cardinality(within))

RECURSIVE ApplyLog(_)
\* the table after the batches of a log, each written whole, in order
ApplyLog(log) ==
    IF log = <<>> THEN {}
    ELSE ExecuteMany(ApplyLog(SubSeq(log, 1, Len(log) - 1)),
                     log[Len(log)].batch)

\* the batches a worker has committed, in order
CommittedBy(w) ==
    LET own == SelectSeq(conns.log, LAMBDA e : e.worker = w)
    IN [j \in 1..Len(own) |-> own[j].batch]

\* C28: a batch write is all-or-nothing.  daily_kl is at every moment what
\* the committed batches, each applied whole and in the order of their
\* commits, make of the empty table; the batches a worker has committed are
\* the chunks of its archive before the one under way, and when its write
\* has finally failed, by exhausted lock retries or by another error, the
\* chunks before the failed one are committed, the failed one is not, and
\* the connection holds no open transaction.
C28_AllOrNothing ==
    /\ daily_kl = ApplyLog(conns.log)
    /\ \A w \in ImportWorkers :
          LET c == conns.workers[w]
          IN /\ CommittedBy(w) = SubSeq(Chunks(c.records), 1, c.done)
             /\ c.pc = "raised"
                   => /\ c.done < Len(Chunks(c.records))
                      /\ c.batch = Chunks(c.records)[c.done + 1]
                      /\ c.tx = None

\* a write failed after a row of its batch had been upserted, and an
\* earlier chunk of the archive is committed
C28_Witness ==
    \E w \in ImportWorkers :
        /\ conns.workers[w].pc = "raised"
        /\ conns.workers[w].undone >= 1
        /\ conns.workers[w].done >= 1
        /\ \A j \in 1..Len(Chunks(conns.workers[w].records)[1]) :
              \E r \in daily_kl :
                  RowKey(r) = RowKey(RowOf(Chunks(conns.workers[w].records)[1][j]))

\* both workers have started and neither is writing any more
BothFinished ==
    \A w \in ImportWorkers : conns.workers[w].pc \in {"done", "raised"}

\* C29: after two import workers have written overlapping keys in any
\* interleaving, daily_kl holds at most one row per (station, date), and
\* every row has all its column values from one record a worker submitted.
C29_OneRowNoMixture ==
    BothFinished =>
        /\ \A r, q \in daily_kl : RowKey(r) = RowKey(q) => r = q
        /\ \A r \in daily_kl :
              \E w \in ImportWorkers :
                  \E j \in 1..Len(conns.workers[w].records) :
                      /\ conns.workers[w].records[j].date # None
                      /\ r = RowOf(conns.workers[w].records[j])

\* the two workers committed in turns batches with a common key
C29_Witness ==
    /\ BothFinished
    /\ Len(conns.log) >= 3
    /\ conns.log[1].worker # conns.log[2].worker
    /\ conns.log[2].worker # conns.log[3].worker
    /\ \E i, j \in 1..Len(conns.log) :
          /\ conns.log[i].worker # conns.log[j].worker
          /\ \E a \in 1..Len(conns.log[i].batch) :
                \E b \in 1..Len(conns.log[j].batch) :
                    /\ KeyOf(conns.log[i].batch[a]) = KeyOf(conns.log[j].batch[b])
                    /\ conns.log[i].batch[a].tmk # conns.log[j].batch[b].tmk
    /\ \E r \in daily_kl : r.station_id = 7

(***************************************************************************)
(*                    Properties of the report generator                   *)
(***************************************************************************)
\* both dates of the query are dates and the start is later than the end
StartAfterEnd(r) ==
    /\ ParseDate(r.start_date) # None
    /\ ParseDate(r.end_date) # None
    /\ DateGreater(ParseDate(r.start_date)[1], ParseDate(r.end_date)[1])

NoAggregation(r) ==
    \A i \in 1..Len(r.result.queries) :
        r.result.queries[i] \notin {"aggregate", "breakdown"}

\* C10 as stated: a report query whose start date is later than its end date
\* fails with invalid_range and executes no aggregation query.
C10_InvalidRange ==
    rep # None =>
        (StartAfterEnd(rep[1])
            => rep[1].result.code = "invalid_range" /\ NoAggregation(rep[1]))

\* C10 amended: a report query whose dates both parse and whose start date
\* is later than its end date fails with invalid_range when daily_kl holds
\* data, and with no_data when it holds none; either way no aggregation
\* query is executed.
C10_InvalidRangeGivenCoverage ==
    rep # None =>
        (StartAfterEnd(rep[1])
            => /\ rep[1].result.code =
                    (IF rep[1].coverage = None THEN "no_data"
                     ELSE "invalid_range")
               /\ NoAggregation(rep[1]))

\* 1 August to 15 July asked of a store that holds data
C10_Witness ==
    /\ rep # None
    /\ rep[1].coverage # None
    /\ rep[1].start_date = D_0801 /\ rep[1].end_date = D_0715
    /\ rep[1].result.code = "invalid_range"
    /\ rep[1].result.queries = <<"coverage">>

\* the store holds data, both dates of the query are dates, the start is not
\* later than the end, and the start is a day before the first stored day or
\* the end a day after the last
OutsideCoverage(r) ==
    /\ r.coverage # None
    /\ ParseDate(r.start_date) # None
    /\ ParseDate(r.end_date) # None
    /\ ~DateGreater(ParseDate(r.start_date)[1], ParseDate(r.end_date)[1])
    /\ \/ DateGreater(ParseDate(r.coverage[1].min_date)[1],
                      ParseDate(r.start_date)[1])
       \/ DateGreater(ParseDate(r.end_date)[1],
                      ParseDate(r.coverage[1].max_date)[1])

\* C11: a report query (with dates that parse, in order, asked of a store
\* that holds data) whose start date is earlier than the minimum observed
\* date or whose end date is later than the maximum observed date fails with
\* out_of_bounds.
C11_OutOfBounds ==
    rep # None =>
        (OutsideCoverage(rep[1]) => rep[1].result.code = "out_of_bounds")

\* the observations of the selected stations whose day is in the range of
\* the query, from its start day to its end day, and in the period
ObservationsOf(r, table, period) ==
    {o \in table :
        /\ \E i \in 1..Len(r.result.stations) :
              r.result.stations[i].station_id = o.station_id
        /\ ~DateGreater(ParseDate(r.start_date)[1], ParseDate(o.date)[1])
        /\ ~DateGreater(ParseDate(o.date)[1], ParseDate(r.end_date)[1])
        /\ Period(r.granularity, o.date) = period}

\* the five values of a returned period are the aggregates of these rows
ValuesOver(p, rows) ==
    /\ p.temp_avg = RoundedAvg(rows, "tmk")
    /\ p.temp_max = RoundedMax(rows, "txk")
    /\ p.temp_min = RoundedMin(rows, "tnk")
    /\ p.precipitation = RoundedSum(rows, "rsk")
    /\ p.sunshine = RoundedSum(rows, "sdk")

\* C12: every period a report returns carries the mean of tmk, the maximum
\* of txk, the minimum of tnk and the sums of rsk and sdk (to two decimals,
\* over the values present) of exactly the observations of the selected
\* stations whose date lies in the query range and in that period; and a
\* store with the single observation of 15 July 2022, asked for that day,
\* returns one period with 20.5, 25.0, 15.2, 5.0 and 10.0 and marks the
\* station has_data.
C12_PeriodValues ==
    (rep # None /\ rep[1].result.code = "ok") =>
        /\ \A i \in 1..Len(rep[1].result.periods) :
              ValuesOver(rep[1].result.periods[i],
                         ObservationsOf(rep[1], daily_kl,
                                        rep[1].result.periods[i].period))
        /\ (daily_kl = {DayTable[1]} /\ rep[1].start_date = D_0715
                /\ rep[1].end_date = D_0715 /\ rep[1].granularity = "day")
            => /\ Len(rep[1].result.periods) = 1
               /\ rep[1].result.periods[1].period = D_0715
               /\ rep[1].result.periods[1].temp_avg = Some(2050)
               /\ rep[1].result.periods[1].temp_max = Some(2500)
               /\ rep[1].result.periods[1].temp_min = Some(1520)
               /\ rep[1].result.periods[1].precipitation = Some(500)
               /\ rep[1].result.periods[1].sunshine = Some(1000)
               /\ \E k \in 1..Len(rep[1].result.stations) :
                     /\ rep[1].result.stations[k].station_id = 7
                     /\ rep[1].result.stations[k].has_data

\* the stations named in the station details of a returned period
\* the candidate stations of a report
CandidateIds(r) ==
    {r.result.stations[k].station_id : k \in 1..Len(r.result.stations)}

\* C26: in every returned report a candidate station is marked has_data
\* exactly when it is in the station details of a returned period, and
\* used_station_ids is the set of the stations so marked, all of them
\* candidates.
C26_HasDataIffContributes ==
    (rep # None /\ rep[1].result.code = "ok") =>
        /\ \A k \in 1..Len(rep[1].result.stations) :
              rep[1].result.stations[k].has_data
                  <=> \E i \in 1..Len(rep[1].result.periods) :
                         \E j \in 1..Len(rep[1].result.periods[i].stations) :
                             rep[1].result.periods[i].stations[j] =
                                 rep[1].result.stations[k].station_id
        /\ rep[1].result.used_station_ids =
              {id \in CandidateIds(rep[1]) :
                  \E k \in 1..Len(rep[1].result.stations) :
                      /\ rep[1].result.stations[k].station_id = id
                      /\ rep[1].result.stations[k].has_data}
        /\ rep[1].result.used_station_ids \subseteq CandidateIds(rep[1])

\* a report with a candidate that contributes and one that does not
C26_Witness ==
    /\ rep # None
    /\ rep[1].result.code = "ok"
    /\ \E k, l \in 1..Len(rep[1].result.stations) :
          /\ rep[1].result.stations[k].has_data
          /\ ~rep[1].result.stations[l].has_data
    /\ rep[1].result.used_station_ids # {}

\* C27: every period a report returns holds an observation of a selected
\* station, in the range, with a value in one of tmk, txk, tnk, rsk and
\* sdk, and so its station details are not empty.  Stated for the queries
\* whose two dates are written with ten characters, where the order of the
\* strings is the order of the days.
C27_PeriodsHoldValues ==
    (/\ rep # None
     /\ rep[1].result.code = "ok"
     /\ Len(rep[1].start_date) = 10
     /\ Len(rep[1].end_date) = 10) =>
        \A i \in 1..Len(rep[1].result.periods) :
            /\ \E o \in ObservationsOf(rep[1], daily_kl,
                                        rep[1].result.periods[i].period) :
                  \E col \in {"tmk", "txk", "tnk", "rsk", "sdk"} :
                      o[col] # None
            /\ rep[1].result.periods[i].stations # <<>>

\* the first of the failure conditions, in the documented order, that
\* applies to a query asked of a store: "none" when none of the first six
\* does
FirstCondition(r, stored) ==
    IF r.coverage = None THEN "no_data"
    ELSE IF ParseDate(r.start_date) = None \/ ParseDate(r.end_date) = None
    THEN "invalid_dates"
    ELSE IF StartAfterEnd(r) THEN "invalid_range"
    ELSE IF OutsideCoverage(r) THEN "out_of_bounds"
    ELSE IF \A st \in stored : st.latitude = None \/ st.longitude = None
    THEN "no_stations"
    ELSE IF r.granularity \notin {"day", "month", "year"}
    THEN "invalid_granularity"
    ELSE "none"

\* C30: generate_report reports the first failure condition that applies,
\* in the order no_data (no coverage), invalid_dates, invalid_range,
\* out_of_bounds, no_stations, invalid_granularity, and with each of these
\* six no aggregation query has run; when none of them applies the
\* aggregation has run and the report fails with no_data exactly when it
\* returned no rows.
C30_FirstConditionReported ==
    rep # None =>
        IF FirstCondition(rep[1], stations) # "none"
        THEN /\ rep[1].result.code = FirstCondition(rep[1], stations)
             /\ NoAggregation(rep[1])
        ELSE /\ rep[1].result.code \in {"no_data", "ok"}
             /\ \E i \in 1..Len(rep[1].result.queries) :
                   rep[1].result.queries[i] = "aggregate"
             /\ rep[1].result.code = "ok" <=> rep[1].result.periods # <<>>

(***************************************************************************)
(*                   Properties of a job's fields                          *)
(***************************************************************************)

\* C13: once the job's status is completed or failed no step changes any of
\* its fields, and before that only steps of the job's own worker do.
C13_TerminalFrozen ==
    [][HasJob =>
          /\ JobId \in DOMAIN jobs'
          /\ JobStatus \in Terminal => jobs'[JobId] = jobs[JobId]
          /\ jobs'[JobId] # jobs[JobId] => Worker]_vars

\* the job has ended and a reader has fetched it since
C13_Witness ==
    /\ JobStatus \in Terminal
    /\ wpc = "done"
    /\ \A r \in Readers : snap[r] # <<>> /\ snap[r][1] = jobs[JobId]

\* the dict a finished to_dict call returned
Snapshot(r) == rd[r].got

Returned(r) == rd[r].pc = "idle" /\ rd[r].n = Len(DictFields)

\* C14: a status snapshot is never torn: the fields of every dict to_dict
\* has returned are those the job had at one moment between two updates, so
\* progress, message, stage and detail come from the same progress event and
\* status, progress, message, result, error and finished_at from the same
\* side of the terminal update.
C14_SnapshotNotTorn ==
    \A r \in Readers :
        Returned(r) =>
            \E v \in versions :
                \A i \in 1..Len(DictFields) :
                    Snapshot(r)[DictFields[i]] = v[DictFields[i]]

\* the worker is between the prepare event and its next update; one reader
\* holds a snapshot from before the event and another one from after it
C14_Witness ==
    /\ upd.at = "stations"
    /\ \E r1, r2 \in Readers :
          /\ Returned(r1) /\ Returned(r2)
          /\ Snapshot(r1).message = "Startet"
          /\ Snapshot(r1).detail = [stage |-> ""]
          /\ Snapshot(r2).message = "Stationsimport wird vorbereitet"
          /\ Snapshot(r2).detail = [stage |-> "prepare"]

\* the work function has raised
TargetRaised == HasJob /\ ipc = "raised"

\* C15: when the work function raises, the worker ends (the exception is
\* handled in _run_job) with the job failed, its error the exception's
\* message, and its result unset from the raise on.
C15_RaiseEndsFailed ==
    /\ TargetRaised ~> (wpc = "done" /\ jobs[JobId].status = "failed"
                           /\ jobs[JobId].error = "exc")
    /\ [](TargetRaised => /\ jobs[JobId].result = "None"
                          /\ jobs[JobId].status \in {"running", "failed"}
                          /\ jobs[JobId].status = "failed" <=> wpc = "done")

\* a full refresh whose daily stage raised after the stations were imported
C15_Witness ==
    /\ TargetRaised /\ wpc = "done"
    /\ jobs[JobId].job_type = "weather"
    /\ jobs[JobId].stage = "stations"
    /\ jobs[JobId].status = "failed"
    /\ jobs[JobId].error = "exc"
    /\ jobs[JobId].result = "None"

\* C16: the step that completes a job sets its progress to 100 when the last
\* reported progress was below 99 and leaves it at the last reported value
\* otherwise, so a completed job's progress is at least 99.
C16_FinalProgress ==
    /\ [][(JobStatus = "running" /\ jobs'[JobId].status = "completed")
            => jobs'[JobId].progress =
                  (IF jobs[JobId].progress < Pct(99) THEN Pct(100)
                   ELSE jobs[JobId].progress)]_vars
    /\ [](JobStatus = "completed" => jobs[JobId].progress >= Pct(99))

\* a job completed at 100 whose work function last reported 98.99
C16_Witness ==
    /\ JobStatus = "completed"
    /\ jobs[JobId].detail = [stage |-> "work", percent |-> Pct(99) - 1]
    /\ jobs[JobId].progress = Pct(100)

(***************************************************************************)
(*                      Properties of the retry loop                       *)
(***************************************************************************)

LockContention(exc) ==
    exc \in {LockedError, TableLockedError}

\* C18: a batch write is executed again only after a lock-contention error
\* met with fewer than 5 re-attempts made, after a sleep of k times the base
\* delay before the k-th re-attempt; the sixth lock error and any other
\* error on its first occurrence end the call with that error; so a call
\* executes the statement at most 6 times, and it ends.
C18_RetryOnlyOnLock ==
    /\ [](/\ retry.executions <= SQLITE_LOCK_RETRIES + 1
          /\ Len(retry.sleeps) <= SQLITE_LOCK_RETRIES
          /\ \A k \in 1..Len(retry.sleeps) :
                /\ retry.sleeps[k] = k * SQLITE_LOCK_SLEEP
                /\ LockContention(retry.errors[k])
          /\ retry.pc \in {"execute", "returned"} =>
                /\ Len(retry.errors) = Len(retry.sleeps)
                /\ retry.executions =
                      Len(retry.sleeps) + (IF retry.pc = "returned" THEN 1 ELSE 0)
          /\ retry.pc = "raised" =>
                /\ Len(retry.errors) = Len(retry.sleeps) + 1
                /\ retry.executions = Len(retry.errors)
                /\ LockContention(retry.errors[Len(retry.errors)])
                      => Len(retry.sleeps) = SQLITE_LOCK_RETRIES)
    /\ (retry.pc = "execute") ~> (retry.pc \in {"returned", "raised"})

\* five lock errors slept out, the sixth raised to the caller
C18_Witness ==
    /\ retry.pc = "raised"
    /\ retry.executions = 6
    /\ retry.sleeps = <<1, 2, 3, 4, 5>>
    /\ retry.errors[6] = LockedError

(***************************************************************************)
(*                     Properties of a refresh run                         *)
(***************************************************************************)

StationIds == {s.station_id : s \in stations}

\* C17: no step of a station refresh or a full refresh removes a stored
\* station: the station ids in storage after the step include those before.
C17_StationsNeverRemoved ==
    [][StationIds \subseteq {s.station_id : s \in stations'}]_vars

\* the names of the fetched archive listing that end in the archive suffix
Matching == {name \in refresh.listing : name[Len(name)] = "_hist.zip"}

\* C19: once the stations are imported and the archive listing is fetched,
\* the run has raised exactly if no name of the listing ends in the archive
\* suffix; with at least one such name the run goes through all of them and
\* returns, however many fail.
C19_FatalIffNoArchive ==
    /\ [](refresh.fetched =>
            /\ refresh.pc = "raised" <=> Matching = {}
            /\ refresh.pc = "returned" =>
                  refresh.processed + refresh.failed = Cardinality(Matching))
    /\ (refresh.fetched /\ Matching # {}) ~> (refresh.pc = "returned")

\* a full refresh that returned although each of its two archives failed
C19_Witness ==
    /\ refresh.pc = "returned" /\ refresh.kind = "weather"
    /\ Cardinality(Matching) = 2
    /\ refresh.failed = 2 /\ refresh.processed = 0

\* the station stage of the run is over and the description entry was
\* missing from the listing or its download failed
StationsMissing ==
    /\ refresh.pc \notin {"idle", "stations"}
    /\ ~refresh.entry \/ ~refresh.downloaded

\* C20: when the description entry is missing from the listing or its
\* download fails, the run has raised in its station stage: it has fetched
\* no archive listing, downloaded no archive and written no daily row.
C20_AbortsBeforeDaily ==
    StationsMissing =>
        /\ refresh.pc = "raised" /\ refresh.stage = "stations"
        /\ ~refresh.fetched
        /\ refresh.downloads = 0 /\ refresh.written = 0

\* a full refresh of a store that holds daily rows, aborted for a listing
\* that has archives and no description entry
C20_Witness ==
    /\ refresh.kind = "weather" /\ refresh.pc = "raised"
    /\ refresh.stage = "stations" /\ ~refresh.entry
    /\ ~refresh.reset
    /\ daily_kl # {}
    /\ refresh.downloads = 0

(***************************************************************************)
(*                    Properties of the batch writers                      *)
(***************************************************************************)

\* C21: a batch writer that returns gives, as updated, the number of
\* distinct keys of the batch that were stored immediately before the
\* write, and, as inserted, the size of the batch minus that number, so
\* that the two add up to the size of the batch.
C21_BatchCounts ==
    call.table # "none" /\ ~call.raised =>
        /\ call.updated = Cardinality(call.keys \cap call.before)
        /\ call.inserted = call.size - Cardinality(call.keys \cap call.before)
        /\ call.inserted + call.updated = call.size

\* a daily batch of two keys, one stored before and one new
C21_Witness ==
    /\ call.table = "daily_kl"
    /\ ~call.raised
    /\ call.size = 2
    /\ call.updated = 1
    /\ call.inserted = 1

(***************************************************************************)
(*                 Properties of the stages of a full refresh              *)
(***************************************************************************)

StageRank(stage) ==
    CASE stage = "" -> 0 [] stage = "prepare" -> 1 [] stage = "stations" -> 2
      [] stage = "daily" -> 3 [] stage = "complete" -> 4

FullRefresh == HasJob /\ jobs[JobId].job_type = "weather"

\* C22: the stage of a full refresh goes through prepare, stations, daily,
\* complete in this order, one stage at a time and never back; it becomes
\* complete only from daily, with at least one archive and every archive
\* attempted; a run that has raised is never at complete.
C22_StageOrder ==
    /\ [][FullRefresh =>
            /\ StageRank(jobs'[JobId].stage) - StageRank(jobs[JobId].stage)
                  \in {0, 1}
            /\ jobs'[JobId].stage = "complete" /\ jobs[JobId].stage # "complete"
                  => /\ jobs[JobId].stage = "daily"
                     /\ imp.total >= 1
                     /\ imp.processed + imp.failed = imp.total
            /\ jobs'[JobId].stage = "daily" /\ jobs[JobId].stage = "daily"
               /\ jobs'[JobId].detail # jobs[JobId].detail
                  => imp'.processed + imp'.failed
                        = imp.processed + imp.failed + 1]_vars
    /\ [](FullRefresh /\ ipc = "raised" => jobs[JobId].stage # "complete")

\* a full refresh at complete after one archive imported and one failed
C22_Witness ==
    /\ FullRefresh
    /\ jobs[JobId].stage = "complete"
    /\ jobs[JobId].status = "completed"
    /\ imp.processed = 1
    /\ imp.failed = 1

(***************************************************************************)
(*              Properties of the buffer of one import run                 *)
(***************************************************************************)

\* the records archive i has given so far, in file order
RecsOf(i) ==
    LET rows == source[i].rows
        kept == SelectSeq([j \in 1..Len(rows) |-> NormalizeDailyRecord(rows[j], i)],
                          LAMBDA n : ~n.raised /\ n.rec # None)
    IN [j \in 1..Len(kept) |-> kept[j].rec[1]]

\* the records of the run in processing order
Processed ==
    LET f[i \in 0..Len(source)] == IF i = 0 THEN <<>> ELSE f[i - 1] \o RecsOf(i)
    IN f[Len(source)]

Occurrences(k) == {j \in 1..Len(Processed) : KeyOf(Processed[j]) = k}

LastOccurrence(k) ==
    Processed[CHOOSE j \in Occurrences(k) : \A i \in Occurrences(k) : i <= j]

\* the keys with a date that occur more than once in the run
Repeated ==
    {k \in {KeyOf(Processed[j]) : j \in 1..Len(Processed)} :
        k[2] # None /\ Cardinality(Occurrences(k)) > 1}

ArchivesOf(k) ==
    {i \in 1..Len(source) :
        \E j \in 1..Len(RecsOf(i)) : KeyOf(RecsOf(i)[j]) = k}

StoredFor(k) == {r \in daily_kl : <<r.station_id, Some(r.date)>> = k}

OneRecordPerKey ==
    pc = "write" =>
        \A i, j \in 1..Len(batch) : KeyOf(batch[i]) = KeyOf(batch[j]) => i = j

BatchKeys(b) == {KeyOf(b[i]) : i \in 1..Len(b)}

ArchiveReturned == stats'.archives_processed = stats.archives_processed + 1

\* C24: the buffer never holds more than CHUNK_SIZE keys, and fewer while
\* rows are read; a key leaves it only in a step of the writer, which
\* empties it when the write commits; the parse of an archive returns with
\* the buffer empty and every key of its records handed to the writer.
C24_BufferFlushed ==
    /\ [](/\ Cardinality(BatchKeys(batch)) = Len(batch)
          /\ Len(batch) <= CHUNK_SIZE
          /\ pc = "parse" => Len(batch) < CHUNK_SIZE)
    /\ [][/\ BatchKeys(batch) \ BatchKeys(batch') # {} => pc = "write"
          /\ CommitStep => batch' = <<>>
          /\ ArchiveReturned =>
                /\ batch = <<>>
                /\ BatchKeys(RecsOf(idx)) \subseteq hist.submitted]_vars

\* an archive of three rows returned after a full chunk and the rest
C24_Witness ==
    /\ RunEnded
    /\ Len(source) = 1
    /\ Len(source[1].rows) = 3
    /\ stats.archives_processed = 1
    /\ stats.inserted = 2
    /\ stats.updated = 1

=============================================================================
